---- MODULE Spec2Model ----
(***************************************************************************)
(* Alert lifecycle of the emergency backend: sendSOS / cancelSOS /         *)
(* resolveSOS of controllers/sosController.js over the SOS collection of   *)
(* models/sosModel.js; its conversations: getOrCreateConversation /        *)
(* assignAdminToConversation / sendMessage / markMessagesAsRead /          *)
(* archiveConversation of controllers/messageController.js over the        *)
(* Conversation and Message collections of models/messageModel.js; and     *)
(* the socket layer of server.js: the authentication middleware and the    *)
(* join and join-admin handlers.                                           *)
(*                                                                         *)
(* Every handler is an async function.  Node runs the code between two     *)
(* awaits atomically, so a handler is split where it awaits the store:     *)
(*   arrival .. SOS.findOne / findById   (validation, look-up)             *)
(*   doc.save()                           (local edits, one atomic write)  *)
(*   after save                           (publish events, send response)  *)
(* Handlers of different requests interleave between these steps.          *)
(*                                                                         *)
(* doc.save() on a loaded document is Mongoose's delta write: it updates   *)
(* the stored document by _id, $set-ting only the paths whose value was    *)
(* changed locally, $push-ing array elements added with push(), and, when  *)
(* an array was reassigned as a whole, $set-ting the array under the       *)
(* condition that the stored version __v still is the one that was read    *)
(* (VersionError otherwise).                                               *)
(***************************************************************************)
EXTENDS Naturals, Integers, Sequences, FiniteSets, TLC

VARIABLES
    alerts,   \* the SOS collection: sequence of documents, _id = position
    req,      \* the requests in flight: each handler's position and loaded document
    events,   \* everything published through io.to(room).emit(name, data), in order
    log,      \* the responses sent so far, in order, with the request they answer
    now,      \* the clock read by new Date() / Date.now
    convs,    \* the Conversation collection: sequence of documents, _id = position
    msgs,     \* the Message collection, in order of insertion
    mreq,     \* the conversation requests in flight
    mlog,     \* the responses to conversation requests, in order
    conns,    \* the sockets that have tried to connect, with the rooms they are in
    io,       \* whether req.app.get('io') yields the dispatcher
    admins,   \* the Admin collection, in order of insertion
    areq,     \* the account requests in flight
    alog      \* the responses to account requests, in order

alertVars == <<alerts, req, log>>
threadVars == <<convs, msgs, mreq, mlog>>
msgVars == <<convs, msgs, mreq, mlog, admins>>
adminVars == <<areq, alog>>
vars == <<alerts, req, events, log, now, convs, msgs, mreq, mlog, conns, io,
          admins, areq, alog>>

----------------------------------------------------------------------------
(* Bounds *)

MaxCalls == 3          \* requests of the concurrent specification
MaxSeqCalls == 3       \* requests of the sequential specification
MaxTrailCalls == 60    \* raises of the sequential location-trail specification
RaceStart == 48        \* sequential raises before the concurrent trail specification
MaxRaceCalls == 4      \* concurrent raises of the concurrent trail specification
MaxBodyCalls == 2      \* raises of the request-body specification
MaxOverlap == 2        \* requests in flight at once in the concurrent specification
MaxConvCalls == 2      \* requests of the concurrent conversation specification
MaxConvSeqCalls == 3   \* requests of the sequential conversation specification
MaxThreadCalls == 2    \* overlapping requests on one conversation thread
MaxThreadSeqCalls == 3 \* requests on one conversation thread, one at a time
MaxSendCalls == 1      \* send requests over every request body
MaxDispatchCalls == 5  \* alert requests and socket requests with delivery
MaxSocketCalls == 5    \* connection attempts and socket requests

----------------------------------------------------------------------------
(* Program constants *)

MAX_LOCATION_HISTORY == 50

STATUS_ACTIVE == "active"
STATUS_RESOLVED == "resolved"
STATUS_CANCELLED == "cancelled"

ADDRESS_UNAVAILABLE == "Location not available"

----------------------------------------------------------------------------
(* Values *)

NoId == 0          \* null / undefined object id
NoDate == 0        \* undefined date

Num(v) == [t |-> "number", v |-> v]
Str(v) == [t |-> "string", v |-> v]
Undef == [t |-> "undefined", v |-> 0]

\* JavaScript's !x for a request-body value: undefined and the number 0 are
\* falsy, a non-empty string and a non-zero number are not.
Falsy(x) == x.t = "undefined" \/ (x.t = "number" /\ x.v = 0)

Users == {"alice", "bob"}
NoUser == "(none)"                       \* req.user is undefined
\* a username of the request body that is missing or empty is ""

\* User.findOne({ username }): the registered accounts
UserRecord(u) ==
    CASE u = "alice" -> [id |-> 1, fullname |-> "Alice A"]
      [] u = "bob"   -> [id |-> 2, fullname |-> "Bob B"]
      [] OTHER       -> [id |-> NoId, fullname |-> u]

Address(text, lat, lon) == [text |-> text, lat |-> lat, lon |-> lon]
NoAddress == Address("", 0, 0)           \* the schema default ''

NoDoc == [username |-> "", fullname |-> "", userId |-> NoId,
          latitude |-> 0, longitude |-> 0, location |-> <<0, 0>>,
          address |-> NoAddress, status |-> "", timestamp |-> NoDate,
          lastUpdated |-> NoDate, resolvedAt |-> NoDate, cancelledAt |-> NoDate,
          locationHistory |-> <<>>, v |-> 0]

\* a handler's local state; n is the arrival number of its request, caller is
\* req.user.username
NewReq == [n |-> 0, pc |-> "idle", op |-> "none", id |-> NoId, snap |-> NoDoc,
            doc |-> NoDoc, lat |-> 0, lon |-> 0, address |-> NoAddress,
            username |-> "", caller |-> NoUser]

NoData == [id |-> NoId, username |-> "", status |-> "", latitude |-> 0,
           longitude |-> 0, updateCount |-> 0, at |-> NoDate]

Response(code, message, data) == [code |-> code, message |-> message, data |-> data]

Call(op, caller, username, lat, lon, sosId, res) ==
    [op |-> op, caller |-> caller, username |-> username, lat |-> lat,
     lon |-> lon, sosId |-> sosId, res |-> res]

Event(name, room, id, status, at) ==
    [name |-> name, room |-> room, id |-> id, status |-> status, at |-> at]

Room(kind, name, id) == [kind |-> kind, name |-> name, id |-> id]
ADMIN_ROOM == Room("admin-room", "", NoId)
UserRoom(username) == Room("user-", username, NoId)     \* `user-${username}`
IdRoom(userId) == Room("id", "", userId)                \* userId.toString()
\* sos.userId after populate('userId', 'fullname') is a User document, and
\* Document.prototype.toString() is its inspect string, not the id
PopulatedRoom(userId) == Room("{ _id, fullname }", "", userId)

----------------------------------------------------------------------------
(* Store queries *)

\* (variant: the status is left out of the query)
ActiveOf_anyStatus(username) ==
    {i \in 1..Len(alerts) : alerts[i].username = username}

\* SOS.find({ username, status: 'active' }) as a set of ids
ActiveOf(username) ==
    {i \in 1..Len(alerts) :
        alerts[i].username = username /\ alerts[i].status = STATUS_ACTIVE}

\* (variant: the owner's latest alert is taken up again whatever its status)
FindOneActive_latestOfOwner(username) ==
    LET mine == {i \in 1..Len(alerts) : alerts[i].username = username} IN
    IF mine = {} THEN {NoId} ELSE {CHOOSE i \in mine : \A j \in mine : j <= i}

\* SOS.findOne({ username, status: 'active' }): any matching document, NoId if
\* there is none (the query has no sort, so which of several matches is
\* returned is up to the store)
FindOneActive(username) ==
    IF ActiveOf(username) = {} THEN {NoId} ELSE ActiveOf(username)

\* SOS.findById(sosId)
FindById(sosId) == IF sosId \in 1..Len(alerts) THEN sosId ELSE NoId

\* (variant: a failed lookup leaves the address empty)
getAddressFromCoordinates_noFallback(lat, lon, geo) ==
    IF geo = "ok" THEN Address("display_name", lat, lon)
    ELSE NoAddress

\* getAddressFromCoordinates: display_name of the reverse lookup, or the
\* fallback when the lookup fails, times out or has no display_name
getAddressFromCoordinates(lat, lon, geo) ==
    IF geo = "ok" THEN Address("display_name", lat, lon)
    ELSE Address(ADDRESS_UNAVAILABLE, 0, 0)

HistoryEntry(lat, lon, address, at) ==
    [latitude |-> lat, longitude |-> lon, timestamp |-> at, address |-> address]

\* (variant: slice(0, n), which keeps the oldest entries)
SliceLast_fromStart(s, n) ==
    IF Len(s) <= n THEN s ELSE SubSeq(s, 1, n)

\* Array.prototype.slice(-n)
SliceLast(s, n) ==
    IF Len(s) <= n THEN s ELSE SubSeq(s, Len(s) - n + 1, Len(s))

\* activeSOS.locationHistory after push(entry) and the truncation that follows
TrimHistory(h) ==
    IF Len(h) > MAX_LOCATION_HISTORY THEN SliceLast(h, MAX_LOCATION_HISTORY) ELSE h

\* whether the update path reassigned locationHistory as a whole
HistoryReassigned(h) == Len(h) > MAX_LOCATION_HISTORY

\* doc.save() of a loaded document: the stored document after the delta write.
\* snap is the document as it was read, local the document as edited by the
\* handler, cur the document now in the store.
SetPath(snapv, localv, curv) == IF localv # snapv THEN localv ELSE curv

SaveDelta(snap, local, cur, pushed, reassigned) ==
    [username        |-> cur.username,
     fullname        |-> SetPath(snap.fullname, local.fullname, cur.fullname),
     userId          |-> cur.userId,
     latitude        |-> SetPath(snap.latitude, local.latitude, cur.latitude),
     longitude       |-> SetPath(snap.longitude, local.longitude, cur.longitude),
     location        |-> SetPath(snap.location, local.location, cur.location),
     address         |-> SetPath(snap.address, local.address, cur.address),
     status          |-> SetPath(snap.status, local.status, cur.status),
     timestamp       |-> cur.timestamp,
     lastUpdated     |-> SetPath(snap.lastUpdated, local.lastUpdated, cur.lastUpdated),
     resolvedAt      |-> SetPath(snap.resolvedAt, local.resolvedAt, cur.resolvedAt),
     cancelledAt     |-> SetPath(snap.cancelledAt, local.cancelledAt, cur.cancelledAt),
     locationHistory |-> IF reassigned THEN local.locationHistory
                         ELSE cur.locationHistory \o pushed,
     v               |-> IF reassigned \/ pushed # <<>> THEN cur.v + 1 ELSE cur.v]

\* the write is conditional on __v only when an array was reassigned
SaveMatches(snap, cur, reassigned) == reassigned => cur.v = snap.v

----------------------------------------------------------------------------
(* sendSOS *)

\* (variant: the caller is not compared with the username of the body)
SendSOSInvalid_anyCaller(caller, username, lat, lon) ==
    \/ username = "" \/ Falsy(lat) \/ Falsy(lon)
    \/ lat.t # "number" \/ lon.t # "number"
    \/ lat.v < -90 \/ lat.v > 90 \/ lon.v < -180 \/ lon.v > 180
    \/ caller = NoUser

\* (variant: a username without a User record is turned down)
SendSOSInvalid_needsOwner(caller, username, lat, lon) ==
    \/ username = "" \/ Falsy(lat) \/ Falsy(lon)
    \/ lat.t # "number" \/ lon.t # "number"
    \/ lat.v < -90 \/ lat.v > 90 \/ lon.v < -180 \/ lon.v > 180
    \/ caller = NoUser
    \/ caller # username
    \/ UserRecord(username).id = NoId

SendSOSInvalid(caller, username, lat, lon) ==
    \/ username = "" \/ Falsy(lat) \/ Falsy(lon)
    \/ lat.t # "number" \/ lon.t # "number"
    \/ lat.v < -90 \/ lat.v > 90 \/ lon.v < -180 \/ lon.v > 180
    \/ caller = NoUser
    \/ caller # username

SendSOSRejection(caller, username, lat, lon) ==
    IF username = "" \/ Falsy(lat) \/ Falsy(lon)
      THEN Response(400, "Username, latitude, and longitude are required", NoData)
    ELSE IF lat.t # "number" \/ lon.t # "number"
      THEN Response(400, "Latitude and longitude must be numbers", NoData)
    ELSE IF lat.v < -90 \/ lat.v > 90 \/ lon.v < -180 \/ lon.v > 180
      THEN Response(400, "Invalid coordinate values", NoData)
    ELSE IF caller = NoUser
      THEN Response(500, "Failed to send SOS. Please try again.", NoData)
    ELSE Response(400, "You can only send SOS for your own account", NoData)

\* request arrival up to the answer of SOS.findOne; the awaits before it
\* (User.findOne, the reverse lookup) read nothing a handler of this model writes
SendSOS(caller, username, lat, lon, geo) ==
    /\ now' = now + 1
    /\ IF SendSOSInvalid(caller, username, lat, lon)
         THEN /\ log' = Append(log, Call("send", caller, username, lat, lon, NoId,
                                         SendSOSRejection(caller, username, lat, lon)))
              /\ UNCHANGED <<alerts, req, events>>
         ELSE /\ \E id \in FindOneActive(username) :
                    req' = req \cup
                             {[n |-> now, pc |-> "found", op |-> "send", id |-> id,
                               snap |-> IF id = NoId THEN NoDoc ELSE alerts[id],
                               doc |-> NoDoc, lat |-> lat.v, lon |-> lon.v,
                               address |-> getAddressFromCoordinates(lat.v, lon.v, geo),
                               username |-> username, caller |-> caller]}
              /\ UNCHANGED <<alerts, events, log>>

\* new SOS({...}) of the create path
NewSOS(username, lat, lon, address, at) ==
    [username |-> username, fullname |-> UserRecord(username).fullname,
     userId |-> UserRecord(username).id,
     latitude |-> lat, longitude |-> lon, location |-> <<lon, lat>>,
     address |-> address, status |-> STATUS_ACTIVE, timestamp |-> at,
     lastUpdated |-> at, resolvedAt |-> NoDate, cancelledAt |-> NoDate,
     locationHistory |-> <<HistoryEntry(lat, lon, address, at)>>, v |-> 0]

\* (variant: the update path appends to the history but keeps the old position)
UpdatedSOS_keepsPosition(snap, username, lat, lon, address, at) ==
    [snap EXCEPT !.address = address,
                 !.fullname = UserRecord(username).fullname,
                 !.lastUpdated = at,
                 !.locationHistory =
                     TrimHistory(Append(snap.locationHistory,
                                        HistoryEntry(lat, lon, address, at)))]

\* the edits of the update path on the loaded document
UpdatedSOS(snap, username, lat, lon, address, at) ==
    [snap EXCEPT !.latitude = lat, !.longitude = lon, !.location = <<lon, lat>>,
                 !.address = address,
                 !.fullname = UserRecord(username).fullname,
                 !.lastUpdated = at,
                 !.locationHistory =
                     TrimHistory(Append(snap.locationHistory,
                                        HistoryEntry(lat, lon, address, at)))]

\* the turn after SOS.findOne has answered: the edits of either path, with
\* the dates read in this turn, up to the call of save()
SendSOSEdit(q) ==
    /\ q \in req
    /\ q.pc = "found" /\ q.op = "send"
    /\ req' = (req \ {q}) \cup
                {[q EXCEPT !.pc = "saving",
                           !.doc = IF q.id = NoId
                                     THEN NewSOS(q.username, q.lat, q.lon, q.address, now)
                                     ELSE UpdatedSOS(q.snap, q.username, q.lat, q.lon,
                                                     q.address, now)]}
    /\ UNCHANGED <<alerts, events, log, now>>

\* the store executes the save() of either path
SendSOSSave(q) ==
    /\ q \in req
    /\ q.pc = "saving" /\ q.op = "send"
    /\ IF q.id = NoId
         THEN /\ alerts' = Append(alerts, q.doc)
              /\ req' = (req \ {q}) \cup
                           {[q EXCEPT !.pc = "saved", !.id = Len(alerts) + 1]}
         ELSE LET entry == q.doc.locationHistory[Len(q.doc.locationHistory)]
                  reassigned == HistoryReassigned(Append(q.snap.locationHistory, entry))
                  cur == alerts[q.id]
              IN  IF SaveMatches(q.snap, cur, reassigned)
                    THEN /\ alerts' = [alerts EXCEPT ![q.id] =
                                         SaveDelta(q.snap, q.doc, cur, <<entry>>,
                                                   reassigned)]
                         /\ req' = (req \ {q}) \cup
                                      {[q EXCEPT !.pc = "saved",
                                                 !.doc = [q.doc EXCEPT !.v = q.snap.v + 1]]}
                    ELSE \* VersionError
                         /\ alerts' = alerts
                         /\ req' = (req \ {q}) \cup {[q EXCEPT !.pc = "failed"]}
    /\ UNCHANGED <<events, log, now>>

SosView(id, d, count) ==
    [id |-> id, username |-> d.username, status |-> d.status,
     latitude |-> d.latitude, longitude |-> d.longitude,
     updateCount |-> count, at |-> d.timestamp]

\* the body of the answer to a cancel: id, status and cancelledAt
CancelledView(id, d) ==
    [NoData EXCEPT !.id = id, !.status = d.status, !.at = d.cancelledAt]

\* the body of the answer to a resolve: id, username, status and resolvedAt
ResolvedView(id, d) ==
    [NoData EXCEPT !.id = id, !.username = d.username, !.status = d.status,
                   !.at = d.resolvedAt]

\* if (!io) return; / if (io) { ... }: without a dispatcher nothing is
\* published
Publish(published) == IF io THEN events \o published ELSE events

\* (variant: the dispatcher is used without the if (io) check, and its absence
\* is answered from the catch)
CancelSOSRespond_needsDispatcher(q) ==
    /\ q \in req
    /\ q.pc = "saved" /\ q.op = "cancel"
    /\ events' = Publish(<<Event("sos-cancelled", ADMIN_ROOM, q.id, q.doc.status,
                                 q.doc.cancelledAt)>>)
    /\ log' = Append(log,
           Call("cancel", q.caller, q.username, Undef, Undef, NoId,
                IF io
                  THEN Response(200, "SOS cancelled successfully",
                                CancelledView(q.id, q.doc))
                  ELSE Response(500, "Failed to cancel SOS", NoData)))
    /\ req' = req \ {q}
    /\ UNCHANGED <<alerts, now>>

\* (variant: both paths publish the first-contact event)
SendSOSRespond_alwaysAlert(q) ==
    LET created == q.snap = NoDoc IN
    /\ q \in req
    /\ q.pc = "saved" /\ q.op = "send"
    /\ events' = Append(events,
           Event("sos-alert", ADMIN_ROOM, q.id, q.doc.status, q.doc.timestamp))
    /\ log' = Append(log,
           Call("send", q.caller, q.username, Num(q.lat), Num(q.lon), NoId,
                IF created
                  THEN Response(201, "SOS sent successfully", SosView(q.id, q.doc, 0))
                  ELSE Response(200, "SOS location updated successfully",
                                SosView(q.id, q.doc, Len(q.doc.locationHistory)))))
    /\ req' = req \ {q}
    /\ UNCHANGED <<alerts, now>>

\* the turn after save() has answered: emitSOSUpdate / emitSOSAlert and the
\* response, or the response of the catch when save() threw
SendSOSRespond(q) ==
    LET created == q.snap = NoDoc IN
    /\ q \in req
    /\ q.pc \in {"saved", "failed"} /\ q.op = "send"
    /\ events' = IF q.pc = "failed" THEN events
                 ELSE Publish(<<Event(IF created THEN "sos-alert" ELSE "sos-updated",
                                      ADMIN_ROOM, q.id, q.doc.status, q.doc.timestamp)>>)
    /\ log' = Append(log,
           Call("send", q.caller, q.username, Num(q.lat), Num(q.lon), NoId,
                IF q.pc = "failed"
                  THEN Response(500, "Failed to send SOS. Please try again.", NoData)
                ELSE IF created
                  THEN Response(201, "SOS sent successfully", SosView(q.id, q.doc, 0))
                  ELSE Response(200, "SOS location updated successfully",
                                SosView(q.id, q.doc, Len(q.doc.locationHistory)))))
    /\ req' = req \ {q}
    /\ UNCHANGED <<alerts, now>>

----------------------------------------------------------------------------
(* cancelSOS *)

\* request arrival up to the answer of SOS.findOne by the store
CancelSOS(caller, username) ==
    /\ now' = now + 1
    /\ IF username = ""
         THEN /\ log' = Append(log, Call("cancel", caller, username, Undef, Undef, NoId,
                                         Response(400, "Username is required", NoData)))
              /\ UNCHANGED <<alerts, req, events>>
       ELSE IF caller = NoUser
         THEN /\ log' = Append(log, Call("cancel", caller, username, Undef, Undef, NoId,
                                         Response(500, "Failed to cancel SOS", NoData)))
              /\ UNCHANGED <<alerts, req, events>>
       ELSE IF caller # username
         THEN /\ log' = Append(log, Call("cancel", caller, username, Undef, Undef, NoId,
                                         Response(400, "You can only cancel your own SOS",
                                                  NoData)))
              /\ UNCHANGED <<alerts, req, events>>
       ELSE /\ \E id \in FindOneActive(username) :
                  req' = req \cup
                            {[NewReq EXCEPT !.n = now, !.pc = "found", !.op = "cancel",
                                            !.id = id,
                                            !.snap = IF id = NoId THEN NoDoc
                                                     ELSE alerts[id],
                                            !.username = username,
                                            !.caller = caller]}
            /\ UNCHANGED <<alerts, events, log>>

\* the turn after SOS.findOne has answered: the 404, or activeSOS.status =
\* CANCELLED; activeSOS.cancelledAt = new Date() up to the call of save()
CancelSOSEdit(q) ==
    /\ q \in req
    /\ q.pc = "found" /\ q.op = "cancel"
    /\ IF q.id = NoId
         THEN /\ log' = Append(log, Call("cancel", q.caller, q.username, Undef, Undef,
                                         NoId,
                                         Response(404, "No active SOS found", NoData)))
              /\ req' = req \ {q}
         ELSE /\ req' = (req \ {q}) \cup
                          {[q EXCEPT !.pc = "saving",
                                     !.doc = [q.snap EXCEPT !.status = STATUS_CANCELLED,
                                                            !.cancelledAt = now]]}
              /\ log' = log
    /\ UNCHANGED <<alerts, events, now>>

\* the store executes activeSOS.save()
CancelSOSSave(q) ==
    /\ q \in req
    /\ q.pc = "saving" /\ q.op = "cancel"
    /\ alerts' = [alerts EXCEPT ![q.id] =
                     SaveDelta(q.snap, q.doc, alerts[q.id], <<>>, FALSE)]
    /\ req' = (req \ {q}) \cup {[q EXCEPT !.pc = "saved"]}
    /\ UNCHANGED <<events, log, now>>

\* the rooms a cancellation is published to, in order
CancelRooms(d) ==
    (IF d.userId # NoId THEN <<IdRoom(d.userId)>> ELSE <<>>)
        \o <<UserRoom(d.username), ADMIN_ROOM>>

\* the rooms a resolution is published to, in order; sos.userId is populated
ResolveRooms(d) ==
    (IF d.userId # NoId THEN <<PopulatedRoom(d.userId)>> ELSE <<>>)
        \o <<UserRoom(d.username), ADMIN_ROOM>>

Emit(name, rooms, id, d, at) ==
    [i \in 1..Len(rooms) |-> Event(name, rooms[i], id, d.status, at)]

\* the turn after save() has answered: the events and the response
CancelSOSRespond(q) ==
    /\ q \in req
    /\ q.pc = "saved" /\ q.op = "cancel"
    /\ events' = Publish(Emit("sos-cancelled", CancelRooms(q.doc), q.id, q.doc,
                               q.doc.cancelledAt))
    /\ log' = Append(log,
           Call("cancel", q.caller, q.username, Undef, Undef, NoId,
                Response(200, "SOS cancelled successfully",
                         CancelledView(q.id, q.doc))))
    /\ req' = req \ {q}
    /\ UNCHANGED <<alerts, now>>

----------------------------------------------------------------------------
(* resolveSOS *)

\* request arrival up to the answer of SOS.findById by the store
ResolveSOS(sosId) ==
    /\ now' = now + 1
    /\ req' = req \cup
                {[NewReq EXCEPT !.n = now, !.pc = "found", !.op = "resolve",
                                !.id = FindById(sosId),
                                !.lat = sosId,
                                !.snap = IF FindById(sosId) = NoId THEN NoDoc
                                         ELSE alerts[sosId],
                                !.username = IF FindById(sosId) = NoId THEN ""
                                             ELSE alerts[sosId].username]}
    /\ UNCHANGED <<alerts, events, log>>

\* (variant: the status of the alert found is not looked at)
ResolveSOSEdit_unchecked(q) ==
    /\ q \in req
    /\ q.pc = "found" /\ q.op = "resolve"
    /\ IF q.id = NoId
         THEN /\ log' = Append(log, Call("resolve", NoUser, "", Undef, Undef, q.lat,
                                         Response(404, "SOS not found", NoData)))
              /\ req' = req \ {q}
         ELSE /\ req' = (req \ {q}) \cup
                          {[q EXCEPT !.pc = "saving",
                                     !.doc = [q.snap EXCEPT !.status = STATUS_RESOLVED,
                                                            !.resolvedAt = now]]}
              /\ log' = log
    /\ UNCHANGED <<alerts, events, now>>

\* the turn after SOS.findById has answered: the 404, the 400 (whose body is
\* the message alone: sendBadRequest takes no data), or sos.status =
\* RESOLVED; sos.resolvedAt = new Date() up to the call of save()
ResolveSOSEdit(q) ==
    /\ q \in req
    /\ q.pc = "found" /\ q.op = "resolve"
    /\ IF q.id = NoId
         THEN /\ log' = Append(log, Call("resolve", NoUser, "", Undef, Undef, q.lat,
                                         Response(404, "SOS not found", NoData)))
              /\ req' = req \ {q}
       ELSE IF q.snap.status # STATUS_ACTIVE
         THEN /\ log' = Append(log, Call("resolve", NoUser, "", Undef, Undef, q.lat,
                   Response(400, <<"SOS is already", q.snap.status>>, NoData)))
              /\ req' = req \ {q}
         ELSE /\ req' = (req \ {q}) \cup
                          {[q EXCEPT !.pc = "saving",
                                     !.doc = [q.snap EXCEPT !.status = STATUS_RESOLVED,
                                                            !.resolvedAt = now]]}
              /\ log' = log
    /\ UNCHANGED <<alerts, events, now>>

\* the store executes sos.save()
ResolveSOSSave(q) ==
    /\ q \in req
    /\ q.pc = "saving" /\ q.op = "resolve"
    /\ alerts' = [alerts EXCEPT ![q.id] =
                     SaveDelta(q.snap, q.doc, alerts[q.id], <<>>, FALSE)]
    /\ req' = (req \ {q}) \cup {[q EXCEPT !.pc = "saved"]}
    /\ UNCHANGED <<events, log, now>>

\* the turn after save() has answered: the events and the response
ResolveSOSRespond(q) ==
    /\ q \in req
    /\ q.pc = "saved" /\ q.op = "resolve"
    /\ events' = Publish(Emit("sos-resolved", ResolveRooms(q.doc), q.id, q.doc,
                               q.doc.resolvedAt))
    /\ log' = Append(log,
           Call("resolve", NoUser, "", Undef, Undef, q.id,
                Response(200, "SOS marked as resolved successfully",
                         ResolvedView(q.id, q.doc))))
    /\ req' = req \ {q}
    /\ UNCHANGED <<alerts, now>>

----------------------------------------------------------------------------
(* Specifications *)

\* a password as the handlers read it: its text and its length
Password(text, len) == [text |-> text, len |-> len]
NoPassword == Password("", 0)

\* bcrypt.hash(password, saltRounds): one-way, and salted with a value that
\* bcrypt draws for every call, so two hashes of one password differ; salt
\* stands for the draw
hashPassword(password, salt) == [bcrypt |-> password, salt |-> salt]

\* bcrypt.compare(plainPassword, hashedPassword)
comparePassword(plainPassword, hashedPassword) ==
    hashedPassword.bcrypt = plainPassword

\* crypto's sha256 digest of a reset code
hashResetCode(resetCode) == [sha256 |-> resetCode]

\* resetPasswordToken and resetPasswordExpires of an Admin document that has
\* none (undefined)
NoResetToken == [sha256 |-> <<>>]
NoResetExpires == 0

ADMIN_ROLE_SUPER_ADMIN == "super_admin"
ADMIN_ROLE_ADMIN == "admin"

\* an Admin document as new Admin({...}) makes it, as far as the handlers
\* read or write it; an email is the sequence of its words and of the signs
\* "@", "." and " "
AdminDoc(id, username, fullname, email, password, role) ==
    [id |-> id, username |-> username, fullname |-> fullname, email |-> email,
     password |-> password, role |-> role,
     resetPasswordToken |-> NoResetToken, resetPasswordExpires |-> NoResetExpires]

\* what a query of the Admin collection yields when no document matches
NoAdminDoc == AdminDoc(NoId, "", "", <<>>, hashPassword(NoPassword, 0), "")

\* the password the stored operator accounts were registered with
RegisteredPassword == Password("Passw0rd", 8)

\* the Admin collection before any request: two operator accounts
AdminAccounts ==
    <<AdminDoc(11, "op1", "Op One", <<"op1", "@", "resq", ".", "io">>,
               hashPassword(RegisteredPassword, -1), ADMIN_ROLE_ADMIN),
      AdminDoc(12, "op2", "Op Two", <<"op2", "@", "resq", ".", "io">>,
               hashPassword(RegisteredPassword, -2), ADMIN_ROLE_ADMIN)>>

\* the position in the Admin collection of the document with this _id, 0
\* when there is none
AdminAt(id) ==
    LET found == {i \in 1..Len(admins) : admins[i].id = id} IN
    IF found = {} THEN 0 ELSE CHOOSE i \in found : TRUE

\* Admin.findById(id)
AdminById(id) == IF AdminAt(id) = 0 THEN NoAdminDoc ELSE admins[AdminAt(id)]

\* the unique indexes of the Admin collection on email and on username:
\* whether a stored document other than the one at position at has the email
\* or the username of doc. An insert writes no stored document (at = 0), so
\* every stored document counts, whatever its _id; an update writes the
\* document at its own position
AdminDuplicate(doc, at) ==
    \E i \in 1..Len(admins) :
        /\ i # at
        /\ admins[i].email = doc.email \/ admins[i].username = doc.username

NoConversations ==
    /\ convs = <<>>
    /\ msgs = <<>>
    /\ mreq = {}
    /\ mlog = <<>>
    /\ admins = AdminAccounts

NoConnections == conns = <<>>

NoPasswordRequests ==
    /\ areq = {}
    /\ alog = <<>>

Init ==
    /\ alerts = <<>>
    /\ req = {}
    /\ events = <<>>
    /\ log = <<>>
    /\ now = 1
    /\ NoConversations
    /\ NoConnections
    /\ NoPasswordRequests
    /\ io = TRUE

\* A request is a call of its handler.  The caller of a raise or a cancel is
\* req.user.username, which the handlers read and which an authentication
\* middleware ahead of the handler sets (protect: req.user = the User of the
\* token).  The routes of sosRouter.js mount sendSOS and cancelSOS without
\* one; a request that comes in that way has no req.user, and is the caller
\* NoUser.

\* the request inputs of the concurrent specification: one owner, whose
\* requests overlap in every possible way
Owner == "alice"
Points == {<<Num(14), Num(120)>>, <<Num(15), Num(121)>>}
Callers == {Owner, NoUser}

Arrive ==
    \/ \E c \in Callers, p \in Points : SendSOS(c, Owner, p[1], p[2], "ok")
    \/ \E c \in Callers : CancelSOS(c, Owner)
    \/ \E id \in 1..(Len(alerts) + 1) : ResolveSOS(id)

Step(q) ==
    \/ SendSOSEdit(q)
    \/ SendSOSSave(q)
    \/ SendSOSRespond(q)
    \/ CancelSOSEdit(q)
    \/ CancelSOSSave(q)
    \/ CancelSOSRespond(q)
    \/ ResolveSOSEdit(q)
    \/ ResolveSOSSave(q)
    \/ ResolveSOSRespond(q)

\* any number of requests in flight, handlers interleaving at their awaits
Next ==
    \/ /\ now <= MaxCalls /\ Cardinality(req) < MaxOverlap
       /\ Arrive /\ UNCHANGED <<msgVars, conns, io, adminVars>>
    \/ \E q \in req : Step(q) /\ UNCHANGED <<msgVars, conns, io, adminVars>>

Spec == Init /\ [][Next]_vars

----------------------------------------------------------------------------
(* Sequential specification: a request arrives when none is in flight.  Two
   owners, requests made for somebody else or without an authenticated user,
   a zero coordinate and a failing reverse lookup. *)

SeqCallers == Users \cup {NoUser}
SeqPoints == Points \cup {<<Num(0), Num(120)>>}
GeoOutcomes == {"ok", "error"}

ArriveSeq ==
    \/ \E c \in SeqCallers, u \in Users, p \in SeqPoints, g \in GeoOutcomes :
            SendSOS(c, u, p[1], p[2], g)
    \/ \E c \in SeqCallers, u \in Users : CancelSOS(c, u)
    \/ \E p \in Points : SendSOS(Owner, "", p[1], p[2], "ok")
    \/ \E c \in {Owner, NoUser} : CancelSOS(c, "")
    \/ \E id \in 1..(Len(alerts) + 1) : ResolveSOS(id)

NextSeq ==
    \/ req = {} /\ now <= MaxSeqCalls /\ ArriveSeq /\ UNCHANGED <<msgVars, conns, io, adminVars>>
    \/ \E q \in req : Step(q) /\ UNCHANGED <<msgVars, conns, io, adminVars>>

SpecSeq == Init /\ [][NextSeq]_vars

----------------------------------------------------------------------------
(* Location-trail specifications: one owner raising again and again, the
   k-th raise from its own position. *)

TrailLat(k) == k
TrailLon(k) == 100 + k
TrailGeo(k) == IF k % 4 = 0 THEN "error" ELSE "ok"

TrailRaise == SendSOS(Owner, Owner, Num(TrailLat(now)), Num(TrailLon(now)), TrailGeo(now))

TrailStep(q) ==
    \/ SendSOSEdit(q)
    \/ SendSOSSave(q)
    \/ SendSOSRespond(q)

NextTrail ==
    \/ req = {} /\ now <= MaxTrailCalls /\ TrailRaise /\ UNCHANGED <<msgVars, conns, io, adminVars>>
    \/ \E q \in req : TrailStep(q) /\ UNCHANGED <<msgVars, conns, io, adminVars>>

SpecTrail == Init /\ [][NextTrail]_vars

\* The store, the events and the responses after n sequential trail raises
\* (n >= 1): the k-th raise arrives at time k and saves at time k + 1.
RECURSIVE TrailDoc(_)
TrailDoc(n) ==
    LET address == getAddressFromCoordinates(TrailLat(n), TrailLon(n), TrailGeo(n)) IN
    IF n = 1
      THEN NewSOS(Owner, TrailLat(1), TrailLon(1), address, 2)
      ELSE LET snap == TrailDoc(n - 1)
               entry == HistoryEntry(TrailLat(n), TrailLon(n), address, n + 1)
               d == UpdatedSOS(snap, Owner, TrailLat(n), TrailLon(n), address, n + 1)
           IN  SaveDelta(snap, d, snap, <<entry>>,
                         HistoryReassigned(Append(snap.locationHistory, entry)))

TrailEvents(n) ==
    [k \in 1..n |->
        Event(IF k = 1 THEN "sos-alert" ELSE "sos-updated", ADMIN_ROOM, 1,
              STATUS_ACTIVE, 2)]

TrailLog(n) ==
    [k \in 1..n |->
        Call("send", Owner, Owner, Num(TrailLat(k)), Num(TrailLon(k)), NoId,
             IF k = 1
               THEN Response(201, "SOS sent successfully", SosView(1, TrailDoc(1), 0))
               ELSE Response(200, "SOS location updated successfully",
                             SosView(1, TrailDoc(k),
                                     Len(TrailDoc(k).locationHistory))))]

\* the sequential trail specification reaches exactly these states
TrailReached ==
    (req = {} /\ now > 1) =>
        /\ alerts = <<TrailDoc(now - 1)>>
        /\ events = TrailEvents(now - 1)
        /\ log = TrailLog(now - 1)

\* concurrent raises on a trail that RaceStart sequential raises have built
InitRace ==
    /\ alerts = <<TrailDoc(RaceStart)>>
    /\ req = {}
    /\ events = TrailEvents(RaceStart)
    /\ log = TrailLog(RaceStart)
    /\ now = RaceStart + 1
    /\ NoConversations
    /\ NoConnections
    /\ NoPasswordRequests
    /\ io = TRUE

NextRace ==
    \/ now <= RaceStart + MaxRaceCalls /\ TrailRaise /\ UNCHANGED <<msgVars, conns, io, adminVars>>
    \/ \E q \in req : TrailStep(q) /\ UNCHANGED <<msgVars, conns, io, adminVars>>

SpecRace == InitRace /\ [][NextRace]_vars

----------------------------------------------------------------------------
(* Request bodies: sequential raises over the kinds of latitude and longitude
   a JSON body can carry, for a registered owner and for a username that
   User.findOne does not find *)

BodyOwners == {"alice", "carol"}
BodyLatitudes == {Undef, Str(14), Num(-91), Num(-90), Num(0), Num(14), Num(91)}
BodyLongitudes == {Undef, Str(120), Num(-181), Num(0), Num(120), Num(180)}

ArriveBody ==
    \E u \in BodyOwners, lat \in BodyLatitudes, lon \in BodyLongitudes :
        SendSOS(u, u, lat, lon, "ok")

NextBody ==
    \/ req = {} /\ now <= MaxBodyCalls /\ ArriveBody /\ UNCHANGED <<msgVars, conns, io, adminVars>>
    \/ \E q \in req : TrailStep(q) /\ UNCHANGED <<msgVars, conns, io, adminVars>>

SpecBody == Init /\ [][NextBody]_vars

----------------------------------------------------------------------------
(* Conversations: values *)

MESSAGE_PREVIEW_LENGTH == 100
CONVERSATION_ACTIVE == "active"
CONVERSATION_ARCHIVED == "archived"

\* User.findById(id)
UserById(id) ==
    CASE id = 1 -> UserRecord("alice")
      [] id = 2 -> UserRecord("bob")
      [] OTHER  -> [id |-> NoId, fullname |-> ""]

SYSTEM_ADMIN == 10         \* _id of the account resqyou_system, once created

\* the account that getOrCreateConversation creates for the welcome message
SystemAdminDoc(salt) ==
    AdminDoc(SYSTEM_ADMIN, "resqyou_system", "ResqYOU Respondents",
             <<"emergency", "@", "resqyou", ".", "com">>,
             hashPassword(Password("system_admin_2024", 17), salt),
             ADMIN_ROLE_ADMIN)

\* Admin.findOne({ username })
AdminByUsername(username) ==
    {i \in 1..Len(admins) : admins[i].username = username}

\* fullname.length
NameLength(name) ==
    CASE name = "Alice A" -> 7
      [] name = "Bob B"   -> 5
      [] name = "Op One"  -> 6
      [] name = "Op Two"  -> 6
      [] OTHER            -> 0

\* a string: what it says and its length
Text(body, len) == [body |-> body, len |-> len]
NoText == Text("", 0)
CONVERSATION_STARTED == Text("Conversation started", 20)

\* the welcomeText template of getOrCreateConversation
SystemWelcomeText(fullname) ==
    Text("You're now connected to ResqYOU Emergency Respondents",
         267 + NameLength(fullname))

\* the welcomeText template of assignAdminToConversation
AssignWelcomeText(fullname, adminName) ==
    Text("I'll be handling your case today",
         213 + NameLength(fullname) + NameLength(adminName))

\* text.substring(0, MESSAGE.PREVIEW_LENGTH)
Preview(text) ==
    IF text.len > MESSAGE_PREVIEW_LENGTH
      THEN Text(text.body, MESSAGE_PREVIEW_LENGTH) ELSE text

NoConv == [userId |-> NoId, userName |-> "", adminId |-> NoId, adminName |-> "",
           lastMessage |-> NoText, lastMessageTime |-> NoDate,
           unreadCountUser |-> 0, unreadCountAdmin |-> 0, status |-> ""]

\* the document of Conversation.create({...}) with the schema defaults; at is
\* its lastMessageTime: new Date()
NewConversation(userId, adminId, at) ==
    [userId |-> userId, userName |-> UserById(userId).fullname,
     adminId |-> adminId, adminName |-> AdminById(adminId).fullname,
     lastMessage |-> CONVERSATION_STARTED, lastMessageTime |-> at,
     unreadCountUser |-> 0, unreadCountAdmin |-> 0,
     status |-> CONVERSATION_ACTIVE]

\* Message.create({...}) of a welcome message
WelcomeMessage(conversationId, senderId, text) ==
    [conversationId |-> conversationId, senderType |-> "admin",
     senderId |-> senderId, senderModel |-> "Admin", messageType |-> "text",
     text |-> text, mediaUrl |-> "", isRead |-> FALSE]

NoMessage ==
    [conversationId |-> NoId, senderType |-> "", senderId |-> NoId,
     senderModel |-> "", messageType |-> "", text |-> NoText, mediaUrl |-> "",
     isRead |-> FALSE]

\* who a request is authenticated as: protectUserOrAdmin sets req.user for a
\* user token and req.admin for an admin token, never both
Caller(type, id) == [type |-> type, id |-> id]
NoCaller == Caller("", NoId)

\* req.body.text: what it says, its length, and how many of its characters
\* are leading or trailing white space; length 0 stands for a text that is
\* absent or empty
RawText(body, len, blank) == [body |-> body, len |-> len, blank |-> blank]
NoRawText == RawText("", 0, 0)

\* req.body of sendMessage and of markMessagesAsRead (readerType is carried
\* as senderType); messageType "" and media FALSE stand for absent fields
Body(senderType, messageType, text, media) ==
    [senderType |-> senderType, messageType |-> messageType, text |-> text,
     media |-> media]
NoBody == Body("", "", NoRawText, FALSE)

MResponse(code, message, id, conv) ==
    [code |-> code, message |-> message, id |-> id, conv |-> conv,
     msg |-> NoMessage]

\* the answer of sendMessage: the message as stored
MessageResponse(code, message, id, msg) ==
    [code |-> code, message |-> message, id |-> id, conv |-> NoConv, msg |-> msg]

NoMResponse == MResponse(0, "", NoId, NoConv)

\* a conversation handler's local state: snap is the conversation as the
\* store returned it, doc the handler's copy of it, res the answer it has
\* made up and not yet given, at the date it has read for its update
NewMReq == [n |-> 0, pc |-> "idle", op |-> "none", id |-> NoId, userId |-> NoId,
            adminId |-> NoId, snap |-> NoConv, doc |-> NoConv,
            caller |-> NoCaller, body |-> NoBody, msg |-> NoId,
            res |-> NoMResponse, at |-> NoDate]

MCall(op, userId, adminId, id, res) ==
    [op |-> op, userId |-> userId, adminId |-> adminId, id |-> id, res |-> res,
     caller |-> NoCaller, body |-> NoBody]

\* a sendMessage or markMessagesAsRead request and its answer
MessageCall(op, caller, id, body, res) ==
    [op |-> op, userId |-> NoId, adminId |-> NoId, id |-> id, res |-> res,
     caller |-> caller, body |-> body]

\* (variant: save() writes the whole document as the handler holds it)
ConvSaveDelta_wholeDocument(snap, local, cur) == local

\* conversation.save() of a loaded document: only the paths changed locally
\* are written
ConvSaveDelta(snap, local, cur) ==
    [userId          |-> SetPath(snap.userId, local.userId, cur.userId),
     userName        |-> SetPath(snap.userName, local.userName, cur.userName),
     adminId         |-> SetPath(snap.adminId, local.adminId, cur.adminId),
     adminName       |-> SetPath(snap.adminName, local.adminName, cur.adminName),
     lastMessage     |-> SetPath(snap.lastMessage, local.lastMessage, cur.lastMessage),
     lastMessageTime |-> SetPath(snap.lastMessageTime, local.lastMessageTime,
                                 cur.lastMessageTime),
     unreadCountUser |-> SetPath(snap.unreadCountUser, local.unreadCountUser,
                                 cur.unreadCountUser),
     unreadCountAdmin |-> SetPath(snap.unreadCountAdmin, local.unreadCountAdmin,
                                  cur.unreadCountAdmin),
     status          |-> SetPath(snap.status, local.status, cur.status)]

----------------------------------------------------------------------------
(* getOrCreateConversation *)

\* (variant: only active conversations are looked up)
ConversationsOf_activeOnly(userId, adminId) ==
    {i \in 1..Len(convs) :
        /\ convs[i].userId = userId
        /\ adminId # NoId => convs[i].adminId = adminId
        /\ convs[i].status = CONVERSATION_ACTIVE}

\* Conversation.find({ userId, ...(adminId && { adminId }) }) as a set of ids
ConversationsOf(userId, adminId) ==
    {i \in 1..Len(convs) :
        /\ convs[i].userId = userId
        /\ adminId # NoId => convs[i].adminId = adminId}

\* Conversation.findOne({ userId, ...(adminId && { adminId }) }): any matching
\* document (the query has no sort), NoId if there is none
FindOneConversation(userId, adminId) ==
    IF ConversationsOf(userId, adminId) = {} THEN {NoId}
    ELSE ConversationsOf(userId, adminId)

\* request arrival up to the answer of Conversation.findOne by the store.
\* caller is req.user._id, NoId for an operator.
GetOrCreateConversation(caller, bodyUserId, adminId) ==
    LET userId == IF bodyUserId = NoId THEN caller ELSE bodyUserId IN
    /\ now' = now + 1
    /\ IF userId = NoId
         THEN /\ mlog' = Append(mlog, MCall("getOrCreate", userId, adminId, NoId,
                             MResponse(400, "User ID is required", NoId, NoConv)))
              /\ UNCHANGED mreq
         ELSE /\ \E id \in FindOneConversation(userId, adminId) :
                    mreq' = mreq \cup
                       {[NewMReq EXCEPT !.n = now, !.pc = "looked",
                                        !.op = "getOrCreate", !.id = id,
                                        !.userId = userId, !.adminId = adminId,
                                        !.snap = IF id = NoId THEN NoConv
                                                 ELSE convs[id],
                                        !.doc = IF id = NoId THEN NoConv
                                                ELSE convs[id]]}
              /\ UNCHANGED mlog
    /\ UNCHANGED <<convs, msgs, admins, events>>

\* the turn after Conversation.findOne has answered: the answer with the
\* conversation found; or User.findById and Admin.findById, which read
\* documents no handler of these specifications changes, their 404, and the
\* call of Conversation.create with lastMessageTime: new Date()
ConversationLookedUp(q) ==
    LET answer(res) ==
            /\ mlog' = Append(mlog,
                   MCall("getOrCreate", q.userId, q.adminId, res.id, res))
            /\ mreq' = mreq \ {q}
    IN
    /\ q \in mreq
    /\ q.op = "getOrCreate" /\ q.pc = "looked"
    /\ IF q.id # NoId
         THEN answer(MResponse(200, "", q.id, q.snap))
       ELSE IF UserById(q.userId).id = NoId
         THEN answer(MResponse(404, "User not found", NoId, NoConv))
       ELSE IF q.adminId # NoId /\ AdminById(q.adminId).id = NoId
         THEN answer(MResponse(404, "Admin not found", NoId, NoConv))
       ELSE /\ mreq' = (mreq \ {q}) \cup
                          {[q EXCEPT !.pc = "absent",
                                     !.doc = NewConversation(q.userId, q.adminId, now)]}
            /\ UNCHANGED mlog
    /\ UNCHANGED <<convs, msgs, admins, events, now>>

\* the store executes Conversation.create({...})
CreateConversation(q) ==
    /\ q \in mreq
    /\ q.op = "getOrCreate" /\ q.pc = "absent"
    /\ convs' = Append(convs, q.doc)
    /\ mreq' = (mreq \ {q}) \cup
                  {[q EXCEPT !.pc = "created", !.id = Len(convs) + 1,
                             !.snap = q.doc]}
    /\ UNCHANGED <<msgs, mlog, admins, events, now>>

\* await Admin.findOne({ username: 'resqyou_system' })
FindSystemAdmin(q) ==
    /\ q \in mreq
    /\ q.op = "getOrCreate" /\ q.pc = "created"
    /\ mreq' = (mreq \ {q}) \cup
                  {[q EXCEPT !.pc = IF AdminByUsername("resqyou_system") # {}
                                      THEN "system" ELSE "nosystem"]}
    /\ UNCHANGED <<convs, msgs, mlog, admins, events, now>>

\* await hashPassword(...); the store executes Admin.create({ username:
\* 'resqyou_system', ... }): the username and the email of an Admin are
\* unique, so the second of two creations fails and inserts nothing
CreateSystemAdmin(q) ==
    LET doc == SystemAdminDoc(q.n) IN
    /\ q \in mreq
    /\ q.op = "getOrCreate" /\ q.pc = "nosystem"
    /\ admins' = IF AdminDuplicate(doc, 0) THEN admins ELSE Append(admins, doc)
    /\ mreq' = (mreq \ {q}) \cup
                  {[q EXCEPT !.pc = IF AdminDuplicate(doc, 0)
                                      THEN "failed" ELSE "system"]}
    /\ UNCHANGED <<convs, msgs, mlog, events, now>>

\* the store executes Message.create({...}) of the system welcome message
CreateWelcomeMessage(q) ==
    /\ q \in mreq
    /\ q.op = "getOrCreate" /\ q.pc = "system"
    /\ msgs' = Append(msgs,
           WelcomeMessage(q.id, SYSTEM_ADMIN, SystemWelcomeText(q.doc.userName)))
    /\ mreq' = (mreq \ {q}) \cup {[q EXCEPT !.pc = "welcomed"]}
    /\ UNCHANGED <<convs, mlog, admins, events, now>>

\* (variant: the owner's unread counter is left at its default)
EditWelcomedConversation_noUnread(q) ==
    /\ q \in mreq
    /\ q.op = "getOrCreate" /\ q.pc = "welcomed"
    /\ mreq' = (mreq \ {q}) \cup
          {[q EXCEPT !.pc = "saving",
                     !.doc = [q.doc EXCEPT
                         !.lastMessage = Preview(SystemWelcomeText(q.doc.userName)),
                         !.lastMessageTime = now]]}
    /\ UNCHANGED <<convs, msgs, mlog, admins, events, now>>

\* the turn after Message.create has answered: the edits of the conversation,
\* with lastMessageTime = new Date(), up to the call of save()
EditWelcomedConversation(q) ==
    /\ q \in mreq
    /\ q.op = "getOrCreate" /\ q.pc = "welcomed"
    /\ mreq' = (mreq \ {q}) \cup
          {[q EXCEPT !.pc = "saving",
                     !.doc = [q.doc EXCEPT
                         !.lastMessage = Preview(SystemWelcomeText(q.doc.userName)),
                         !.lastMessageTime = now,
                         !.unreadCountUser = 1]]}
    /\ UNCHANGED <<convs, msgs, mlog, admins, events, now>>

\* the store executes conversation.save()
SaveWelcomedConversation(q) ==
    /\ q \in mreq
    /\ q.op = "getOrCreate" /\ q.pc = "saving"
    /\ convs' = [convs EXCEPT ![q.id] = ConvSaveDelta(q.snap, q.doc, convs[q.id])]
    /\ mreq' = (mreq \ {q}) \cup {[q EXCEPT !.pc = "saved"]}
    /\ UNCHANGED <<msgs, mlog, admins, events, now>>

\* the turn after save() has answered: the answer with the conversation as
\* the handler holds it; or the answer of the catch when Admin.create threw
RespondConversation(q) ==
    /\ q \in mreq
    /\ q.op = "getOrCreate" /\ q.pc \in {"saved", "failed"}
    /\ mlog' = Append(mlog,
           IF q.pc = "saved"
             THEN MCall("getOrCreate", q.userId, q.adminId, q.id,
                        MResponse(200, "", q.id, q.doc))
             ELSE MCall("getOrCreate", q.userId, q.adminId, NoId,
                        MResponse(500, "Failed to get or create conversation",
                                  NoId, NoConv)))
    /\ mreq' = mreq \ {q}
    /\ UNCHANGED <<convs, msgs, admins, events, now>>

----------------------------------------------------------------------------
(* assignAdminToConversation, archiveConversation *)

\* request arrival up to the answer of Conversation.findById by the store;
\* admin is req.admin._id, which protectAdmin has loaded
AssignAdminToConversation(id, admin) ==
    LET found == id \in 1..Len(convs) IN
    /\ now' = now + 1
    /\ mreq' = mreq \cup
          {[NewMReq EXCEPT !.n = now, !.pc = IF found THEN "found" ELSE "missing",
                           !.op = "assign", !.id = id,
                           !.userId = IF found THEN convs[id].userId ELSE NoId,
                           !.adminId = admin,
                           !.snap = IF found THEN convs[id] ELSE NoConv,
                           !.doc = IF found THEN convs[id] ELSE NoConv]}
    /\ UNCHANGED <<convs, msgs, mlog, admins, events>>

\* (variant: the welcome message is sent whether or not the conversation
\* loaded had an assignee)
SaveAssignee_alwaysWelcome(q) ==
    LET d == [q.doc EXCEPT !.adminId = q.adminId,
                           !.adminName = AdminById(q.adminId).fullname]
    IN
    /\ q \in mreq
    /\ q.op = "assign" /\ q.pc = "found"
    /\ convs' = [convs EXCEPT ![q.id] = ConvSaveDelta(q.snap, d, convs[q.id])]
    /\ mreq' = (mreq \ {q}) \cup
                  {[q EXCEPT !.pc = "assigned", !.snap = d, !.doc = d]}
    /\ UNCHANGED <<mlog, msgs, admins, events, now>>

\* wasUnassigned = !conversation.adminId; conversation.adminId = adminId;
\* conversation.adminName = adminName; the store executes conversation.save()
SaveAssignee(q) ==
    LET d == [q.doc EXCEPT !.adminId = q.adminId,
                           !.adminName = AdminById(q.adminId).fullname]
    IN
    /\ q \in mreq
    /\ q.op = "assign" /\ q.pc = "found"
    /\ convs' = [convs EXCEPT ![q.id] = ConvSaveDelta(q.snap, d, convs[q.id])]
    /\ mreq' = (mreq \ {q}) \cup
                  {[q EXCEPT !.pc = IF q.snap.adminId = NoId THEN "assigned"
                                    ELSE "saved",
                             !.snap = d, !.doc = d]}
    /\ UNCHANGED <<mlog, msgs, admins, events, now>>

\* wasUnassigned: User.findById, and the store executes Message.create({...})
CreateAssignMessage(q) ==
    /\ q \in mreq
    /\ q.op = "assign" /\ q.pc = "assigned"
    /\ msgs' = Append(msgs,
           WelcomeMessage(q.id, q.adminId,
                          AssignWelcomeText(UserById(q.userId).fullname,
                                            AdminById(q.adminId).fullname)))
    /\ mreq' = (mreq \ {q}) \cup {[q EXCEPT !.pc = "welcomed"]}
    /\ UNCHANGED <<convs, mlog, admins, events, now>>

\* the turn after Message.create has answered: the edits of the conversation,
\* with lastMessageTime = new Date(), up to the call of the second save()
EditAssignedConversation(q) ==
    /\ q \in mreq
    /\ q.op = "assign" /\ q.pc = "welcomed"
    /\ mreq' = (mreq \ {q}) \cup
          {[q EXCEPT !.pc = "saving",
                     !.doc = [q.doc EXCEPT
                         !.lastMessage =
                             Preview(AssignWelcomeText(UserById(q.userId).fullname,
                                                       AdminById(q.adminId).fullname)),
                         !.lastMessageTime = now,
                         !.unreadCountUser = q.doc.unreadCountUser + 1]]}
    /\ UNCHANGED <<convs, msgs, mlog, admins, events, now>>

\* the store executes the second conversation.save()
SaveAssignedConversation(q) ==
    /\ q \in mreq
    /\ q.op = "assign" /\ q.pc = "saving"
    /\ convs' = [convs EXCEPT ![q.id] = ConvSaveDelta(q.snap, q.doc, convs[q.id])]
    /\ mreq' = (mreq \ {q}) \cup {[q EXCEPT !.pc = "saved"]}
    /\ UNCHANGED <<msgs, mlog, admins, events, now>>

\* the turn after the last await of the handler: the 404 when findById found
\* nothing, the answer with the conversation as the handler holds it otherwise
RespondAssigned(q) ==
    /\ q \in mreq
    /\ q.op = "assign" /\ q.pc \in {"missing", "saved"}
    /\ mlog' = Append(mlog,
           IF q.pc = "missing"
             THEN MCall("assign", NoId, q.adminId, q.id,
                        MResponse(404, "Conversation not found", NoId, NoConv))
             ELSE MCall("assign", q.userId, q.adminId, q.id,
                        MResponse(200, "Admin assigned to conversation successfully",
                                  q.id, q.doc)))
    /\ mreq' = mreq \ {q}
    /\ UNCHANGED <<convs, msgs, admins, events, now>>

\* request arrival up to the answer of Conversation.findByIdAndUpdate(id,
\* { status: 'archived' }, { new: true }) by the store
ArchiveConversation(id) ==
    LET found == id \in 1..Len(convs)
        d == IF found THEN [convs[id] EXCEPT !.status = CONVERSATION_ARCHIVED]
             ELSE NoConv
    IN
    /\ now' = now + 1
    /\ convs' = IF found THEN [convs EXCEPT ![id] = d] ELSE convs
    /\ mreq' = mreq \cup
          {[NewMReq EXCEPT !.n = now, !.pc = IF found THEN "saved" ELSE "missing",
                           !.op = "archive", !.id = id, !.userId = d.userId,
                           !.snap = d, !.doc = d]}
    /\ UNCHANGED <<msgs, mlog, admins, events>>

\* the turn after findByIdAndUpdate has answered: the 404, or the answer with
\* the conversation as updated
RespondArchived(q) ==
    /\ q \in mreq
    /\ q.op = "archive" /\ q.pc \in {"missing", "saved"}
    /\ mlog' = Append(mlog,
           IF q.pc = "missing"
             THEN MCall("archive", NoId, NoId, q.id,
                        MResponse(404, "Conversation not found", NoId, NoConv))
             ELSE MCall("archive", q.userId, NoId, q.id,
                        MResponse(200, "Conversation archived successfully",
                                  q.id, q.doc)))
    /\ mreq' = mreq \ {q}
    /\ UNCHANGED <<convs, msgs, admins, events, now>>

----------------------------------------------------------------------------
(* sendMessage *)

MESSAGE_TYPES == {"text", "image", "video", "audio"}
MESSAGE_SENDER_TYPES == {"user", "admin"}
TEXT_MAXLENGTH == 1000

\* text.trim()
Trim(raw) == Text(raw.body, raw.len - raw.blank)

\* getMessagePreview(messageType, text)
getMessagePreview(messageType, raw) ==
    CASE messageType = "image" -> Text("Image", 8)
      [] messageType = "video" -> Text("Video", 8)
      [] messageType = "audio" -> Text("Voice message", 16)
      [] OTHER -> IF raw.len = 0 THEN NoText
                  ELSE IF raw.len > MESSAGE_PREVIEW_LENGTH
                    THEN Text(raw.body, MESSAGE_PREVIEW_LENGTH)
                  ELSE Text(raw.body, raw.len)

\* messageType = 'text' when the body has none
MessageTypeOf(body) == IF body.messageType = "" THEN "text" ELSE body.messageType

\* (variant: the sender is taken from whichever of req.user and req.admin is
\* set, without regard to the sender type of the body)
SendMessageRejection_anyRole(caller, conversationId, body, upload) ==
    IF conversationId = NoId \/ body.senderType = ""
      THEN MResponse(400, "Conversation ID and sender type are required", NoId, NoConv)
    ELSE IF body.senderType \notin MESSAGE_SENDER_TYPES
      THEN MResponse(400, "Invalid sender type", NoId, NoConv)
    ELSE IF MessageTypeOf(body) \notin MESSAGE_TYPES
      THEN MResponse(400, "Invalid message type", NoId, NoConv)
    ELSE IF MessageTypeOf(body) = "text" /\ body.text.len = 0
      THEN MResponse(400, "Text is required for text messages", NoId, NoConv)
    ELSE IF MessageTypeOf(body) # "text" /\ ~body.media
      THEN MResponse(400, "Media data is required for multimedia messages", NoId, NoConv)
    ELSE IF conversationId \notin 1..Len(convs)
      THEN MResponse(404, "Conversation not found", NoId, NoConv)
    ELSE IF MessageTypeOf(body) # "text" /\ upload = "error"
      THEN MResponse(500, "Failed to upload media", NoId, NoConv)
    ELSE MResponse(0, "", NoId, NoConv)

\* (variant: a media message is not checked for its media data)
SendMessageRejection_mediaOptional(caller, conversationId, body, upload) ==
    IF conversationId = NoId \/ body.senderType = ""
      THEN MResponse(400, "Conversation ID and sender type are required", NoId, NoConv)
    ELSE IF body.senderType \notin MESSAGE_SENDER_TYPES
      THEN MResponse(400, "Invalid sender type", NoId, NoConv)
    ELSE IF MessageTypeOf(body) \notin MESSAGE_TYPES
      THEN MResponse(400, "Invalid message type", NoId, NoConv)
    ELSE IF MessageTypeOf(body) = "text" /\ body.text.len = 0
      THEN MResponse(400, "Text is required for text messages", NoId, NoConv)
    ELSE IF conversationId \notin 1..Len(convs)
      THEN MResponse(404, "Conversation not found", NoId, NoConv)
    ELSE IF body.senderType = "user" /\ caller.type # "user"
      THEN MResponse(401, "User not authenticated", NoId, NoConv)
    ELSE IF body.senderType = "admin" /\ caller.type # "admin"
      THEN MResponse(401, "Admin not authenticated", NoId, NoConv)
    ELSE IF MessageTypeOf(body) # "text" /\ upload = "error"
      THEN MResponse(500, "Failed to upload media", NoId, NoConv)
    ELSE MResponse(0, "", NoId, NoConv)

\* the checks of sendMessage before anything is stored, in order; "" when the
\* request passes them. upload is the outcome of cloudinary.uploader.upload
SendMessageRejection(caller, conversationId, body, upload) ==
    IF conversationId = NoId \/ body.senderType = ""
      THEN MResponse(400, "Conversation ID and sender type are required", NoId, NoConv)
    ELSE IF body.senderType \notin MESSAGE_SENDER_TYPES
      THEN MResponse(400, "Invalid sender type", NoId, NoConv)
    ELSE IF MessageTypeOf(body) \notin MESSAGE_TYPES
      THEN MResponse(400, "Invalid message type", NoId, NoConv)
    ELSE IF MessageTypeOf(body) = "text" /\ body.text.len = 0
      THEN MResponse(400, "Text is required for text messages", NoId, NoConv)
    ELSE IF MessageTypeOf(body) # "text" /\ ~body.media
      THEN MResponse(400, "Media data is required for multimedia messages", NoId, NoConv)
    ELSE IF conversationId \notin 1..Len(convs)
      THEN MResponse(404, "Conversation not found", NoId, NoConv)
    ELSE IF body.senderType = "user" /\ caller.type # "user"
      THEN MResponse(401, "User not authenticated", NoId, NoConv)
    ELSE IF body.senderType = "admin" /\ caller.type # "admin"
      THEN MResponse(401, "Admin not authenticated", NoId, NoConv)
    ELSE IF MessageTypeOf(body) # "text" /\ upload = "error"
      THEN MResponse(500, "Failed to upload media", NoId, NoConv)
    ELSE MResponse(0, "", NoId, NoConv)

\* request arrival up to the answer of Conversation.findById by the store: the
\* checks of the body are answered at once; what the handler goes on to answer
\* after the lookup (404, 401, a failed upload) is made up from the
\* conversation found, the caller and the outcome of the upload
SendMessage(caller, conversationId, body, upload) ==
    LET rejection == SendMessageRejection(caller, conversationId, body, upload) IN
    /\ now' = now + 1
    /\ IF rejection.code = 400
         THEN /\ mlog' = Append(mlog,
                    MessageCall("send", caller, conversationId, body, rejection))
              /\ UNCHANGED mreq
         ELSE /\ mreq' = mreq \cup
                    {[NewMReq EXCEPT !.n = now, !.pc = "loaded", !.op = "send",
                                     !.id = conversationId,
                                     !.snap = IF conversationId \in 1..Len(convs)
                                                THEN convs[conversationId]
                                                ELSE NoConv,
                                     !.caller = caller, !.body = body,
                                     !.res = rejection]}
              /\ UNCHANGED mlog
    /\ UNCHANGED <<convs, msgs, admins, events>>

\* messageData of sendMessage
NewMessage(q) ==
    [conversationId |-> q.id, senderType |-> q.body.senderType,
     senderId |-> q.caller.id,
     senderModel |-> IF q.body.senderType = "user" THEN "User" ELSE "Admin",
     messageType |-> MessageTypeOf(q.body),
     text |-> IF q.body.text.len > 0 THEN Trim(q.body.text) ELSE NoText,
     mediaUrl |-> IF MessageTypeOf(q.body) # "text" THEN "secure_url" ELSE "",
     isRead |-> FALSE]

\* the validators of messageSchema that a message of sendMessage can fail:
\* text is required for a text message (an empty string is not a value) and
\* is at most 1000 characters long
MessageValid(m) ==
    /\ m.messageType = "text" => m.text.len > 0
    /\ m.text.len <= TEXT_MAXLENGTH

\* the turn after Conversation.findById has answered: the 404, the 401, the
\* upload and its 500; messageData, and Message.create(messageData): a
\* ValidationError, which is answered 500 from the catch, or the store
\* executes the insert
CreateMessage(q) ==
    LET m == NewMessage(q) IN
    /\ q \in mreq
    /\ q.op = "send" /\ q.pc = "loaded"
    /\ IF q.res.code # 0
         THEN /\ mlog' = Append(mlog,
                    MessageCall("send", q.caller, q.id, q.body, q.res))
              /\ mreq' = mreq \ {q}
              /\ UNCHANGED msgs
       ELSE IF MessageValid(m)
         THEN /\ msgs' = Append(msgs, m)
              /\ mreq' = (mreq \ {q}) \cup
                            {[q EXCEPT !.pc = "stored", !.msg = Len(msgs) + 1]}
              /\ UNCHANGED mlog
         ELSE /\ mlog' = Append(mlog,
                    MessageCall("send", q.caller, q.id, q.body,
                                MResponse(500, "Failed to send message", NoId, NoConv)))
              /\ mreq' = mreq \ {q}
              /\ UNCHANGED msgs
    /\ UNCHANGED <<convs, admins, events, now>>

\* (variant: the counter incremented is the sender's own)
UpdatedConversation_ownSide(cur, q, at) ==
    IF q.body.senderType = "user"
      THEN [cur EXCEPT !.lastMessage = getMessagePreview(MessageTypeOf(q.body),
                                                         q.body.text),
                       !.lastMessageTime = at,
                       !.unreadCountUser = q.snap.unreadCountUser + 1]
      ELSE [cur EXCEPT !.lastMessage = getMessagePreview(MessageTypeOf(q.body),
                                                         q.body.text),
                       !.lastMessageTime = at,
                       !.unreadCountAdmin = q.snap.unreadCountAdmin + 1]

\* updateData of sendMessage applied to a stored conversation: the unread
\* counter written is the one of the conversation as loaded, plus 1
UpdatedConversation(cur, q, at) ==
    IF q.body.senderType = "user"
      THEN [cur EXCEPT !.lastMessage = getMessagePreview(MessageTypeOf(q.body),
                                                         q.body.text),
                       !.lastMessageTime = at,
                       !.unreadCountAdmin = q.snap.unreadCountAdmin + 1]
      ELSE [cur EXCEPT !.lastMessage = getMessagePreview(MessageTypeOf(q.body),
                                                         q.body.text),
                       !.lastMessageTime = at,
                       !.unreadCountUser = q.snap.unreadCountUser + 1]

\* the turn after Message.create has answered: updateData, with
\* lastMessageTime: new Date(), up to the call of findByIdAndUpdate
UpdateData(q) ==
    /\ q \in mreq
    /\ q.op = "send" /\ q.pc = "stored"
    /\ mreq' = (mreq \ {q}) \cup {[q EXCEPT !.pc = "updating", !.at = now]}
    /\ UNCHANGED <<convs, msgs, mlog, admins, events, now>>

\* the store executes Conversation.findByIdAndUpdate(conversationId, updateData)
UpdateConversation(q) ==
    /\ q \in mreq
    /\ q.op = "send" /\ q.pc = "updating"
    /\ convs' = [convs EXCEPT ![q.id] = UpdatedConversation(convs[q.id], q, q.at)]
    /\ mreq' = (mreq \ {q}) \cup {[q EXCEPT !.pc = "updated"]}
    /\ UNCHANGED <<msgs, mlog, admins, events, now>>

\* the store executes Message.findById(message._id)
FindMessage(q) ==
    /\ q \in mreq
    /\ q.op = "send" /\ q.pc = "updated"
    /\ mreq' = (mreq \ {q}) \cup
          {[q EXCEPT !.pc = "populated",
                     !.res = MessageResponse(201, "Message sent successfully", q.msg,
                                             msgs[q.msg])]}
    /\ UNCHANGED <<convs, msgs, mlog, admins, events, now>>

\* the turn after Message.findById has answered: the answer 201 with the message
RespondMessage(q) ==
    /\ q \in mreq
    /\ q.op = "send" /\ q.pc = "populated"
    /\ mlog' = Append(mlog, MessageCall("send", q.caller, q.id, q.body, q.res))
    /\ mreq' = mreq \ {q}
    /\ UNCHANGED <<convs, msgs, admins, events, now>>

----------------------------------------------------------------------------
(* markMessagesAsRead *)

\* request arrival up to the answer of Conversation.findById by the store
MarkMessagesAsRead(caller, id, readerType) ==
    LET body == Body(readerType, "", NoRawText, FALSE) IN
    /\ now' = now + 1
    /\ IF readerType \notin MESSAGE_SENDER_TYPES
         THEN /\ mlog' = Append(mlog, MessageCall("read", caller, id, body,
                             MResponse(400, "Invalid reader type", NoId, NoConv)))
              /\ UNCHANGED mreq
         ELSE /\ mreq' = mreq \cup
                    {[NewMReq EXCEPT !.n = now,
                                     !.pc = IF id \in 1..Len(convs) THEN "found"
                                            ELSE "missing",
                                     !.op = "read", !.id = id,
                                     !.snap = IF id \in 1..Len(convs) THEN convs[id]
                                              ELSE NoConv,
                                     !.caller = caller, !.body = body]}
              /\ UNCHANGED mlog
    /\ UNCHANGED <<convs, msgs, admins, events>>

\* the store executes Message.updateMany({ conversationId, senderType:
\* opposite, isRead: false }, { isRead: true })
MarkMessages(q) ==
    LET opposite == IF q.body.senderType = "user" THEN "admin" ELSE "user" IN
    /\ q \in mreq
    /\ q.op = "read" /\ q.pc = "found"
    /\ msgs' = [k \in 1..Len(msgs) |->
                   IF msgs[k].conversationId = q.id /\ msgs[k].senderType = opposite
                     THEN [msgs[k] EXCEPT !.isRead = TRUE]
                     ELSE msgs[k]]
    /\ mreq' = (mreq \ {q}) \cup {[q EXCEPT !.pc = "marked"]}
    /\ UNCHANGED <<convs, mlog, admins, events, now>>

\* (variant: both counters are set to 0)
ZeroUnreadCount_bothSides(q) ==
    /\ q \in mreq
    /\ q.op = "read" /\ q.pc = "marked"
    /\ convs' = [convs EXCEPT ![q.id] =
                    [@ EXCEPT !.unreadCountUser = 0, !.unreadCountAdmin = 0]]
    /\ mreq' = (mreq \ {q}) \cup {[q EXCEPT !.pc = "zeroed"]}
    /\ UNCHANGED <<msgs, mlog, admins, events, now>>

\* the store executes Conversation.findByIdAndUpdate(id, { unreadCountUser: 0 }
\* or { unreadCountAdmin: 0 })
ZeroUnreadCount(q) ==
    /\ q \in mreq
    /\ q.op = "read" /\ q.pc = "marked"
    /\ convs' = [convs EXCEPT ![q.id] =
                    IF q.body.senderType = "user"
                      THEN [@ EXCEPT !.unreadCountUser = 0]
                      ELSE [@ EXCEPT !.unreadCountAdmin = 0]]
    /\ mreq' = (mreq \ {q}) \cup {[q EXCEPT !.pc = "zeroed"]}
    /\ UNCHANGED <<msgs, mlog, admins, events, now>>

\* the turn after the last await of the handler: the 404 when findById found
\* nothing, the answer 200 otherwise
RespondRead(q) ==
    /\ q \in mreq
    /\ q.op = "read" /\ q.pc \in {"missing", "zeroed"}
    /\ mlog' = Append(mlog,
           MessageCall("read", q.caller, q.id, q.body,
                       IF q.pc = "missing"
                         THEN MResponse(404, "Conversation not found", NoId, NoConv)
                         ELSE MResponse(200, "Messages marked as read", NoId, NoConv)))
    /\ mreq' = mreq \ {q}
    /\ UNCHANGED <<convs, msgs, admins, events, now>>

----------------------------------------------------------------------------

(* Conversation requests: one owner and two operators, overlapping in every
   possible way *)

ConvOwner == 1
ConvAdmins == {11, 12}

ArriveConv ==
    \/ \E adminId \in {NoId} \cup ConvAdmins :
          GetOrCreateConversation(ConvOwner, NoId, adminId)
    \/ \E id \in 1..(Len(convs) + 1), admin \in ConvAdmins :
          AssignAdminToConversation(id, admin)
    \/ \E id \in 1..(Len(convs) + 1) : ArchiveConversation(id)

AssignStep(q) ==
    \/ SaveAssignee(q)
    \/ CreateAssignMessage(q)
    \/ EditAssignedConversation(q)
    \/ SaveAssignedConversation(q)
    \/ RespondAssigned(q)

ConvStep(q) ==
    \/ ConversationLookedUp(q)
    \/ CreateConversation(q)
    \/ FindSystemAdmin(q)
    \/ CreateSystemAdmin(q)
    \/ CreateWelcomeMessage(q)
    \/ EditWelcomedConversation(q)
    \/ SaveWelcomedConversation(q)
    \/ RespondConversation(q)
    \/ AssignStep(q)
    \/ RespondArchived(q)

NextConv ==
    \/ now <= MaxConvCalls /\ ArriveConv /\ UNCHANGED <<alertVars, conns, io, adminVars>>
    \/ \E q \in mreq : ConvStep(q) /\ UNCHANGED <<alertVars, conns, io, adminVars>>

SpecConv == Init /\ [][NextConv]_vars

\* the sequential specification: each request is answered before the next
\* arrives; an owner asking for themself, an operator naming no owner, a
\* registered owner and an unknown one; no assignee, an operator and an
\* unknown one
ConvSeqCallers == {<<1, NoId>>, <<NoId, NoId>>, <<NoId, 2>>, <<NoId, 3>>}
ConvSeqAdmins == {NoId, 11, 13}

ArriveConvSeq ==
    \/ \E c \in ConvSeqCallers, adminId \in ConvSeqAdmins :
          GetOrCreateConversation(c[1], c[2], adminId)
    \/ \E id \in 1..(Len(convs) + 1), admin \in ConvAdmins :
          AssignAdminToConversation(id, admin)
    \/ \E id \in 1..(Len(convs) + 1) : ArchiveConversation(id)

NextConvSeq ==
    \/ mreq = {} /\ now <= MaxConvSeqCalls /\ ArriveConvSeq /\ UNCHANGED <<alertVars, conns, io, adminVars>>
    \/ \E q \in mreq : ConvStep(q) /\ UNCHANGED <<alertVars, conns, io, adminVars>>

SpecConvSeq == Init /\ [][NextConvSeq]_vars

----------------------------------------------------------------------------
(* A conversation thread: requests on the conversation that one
   getOrCreateConversation of the owner has created and welcomed *)

ThreadConv ==
    [NewConversation(ConvOwner, NoId, 2) EXCEPT
        !.lastMessage = Preview(SystemWelcomeText(UserById(ConvOwner).fullname)),
        !.lastMessageTime = 2,
        !.unreadCountUser = 1]

ThreadStore ==
    /\ admins = Append(AdminAccounts, SystemAdminDoc(1))
    /\ convs = <<ThreadConv>>
    /\ msgs = <<WelcomeMessage(1, SYSTEM_ADMIN,
                               SystemWelcomeText(UserById(ConvOwner).fullname))>>
    /\ mreq = {}
    /\ mlog = <<MCall("getOrCreate", ConvOwner, NoId, 1,
                      MResponse(200, "", 1, ThreadConv))>>

InitThread ==
    /\ alerts = <<>>
    /\ req = {}
    /\ events = <<>>
    /\ log = <<>>
    /\ now = 2
    /\ ThreadStore
    /\ NoConnections
    /\ NoPasswordRequests
    /\ io = TRUE

\* the store of InitThread is the one the sequential specification reaches
\* with the owner's first request
ThreadReached ==
    (mreq = {} /\ now = 2 /\ convs # <<>> /\ convs[1].userId = ConvOwner
        /\ convs[1].adminId = NoId) => ThreadStore

ThreadUser == Caller("user", ConvOwner)

\* a text message of 5 characters sent under the caller's own role
ThreadText(caller) == Body(caller.type, "text", RawText("hello", 5, 0), FALSE)

ArriveThread ==
    \/ GetOrCreateConversation(ConvOwner, NoId, NoId)
    \/ \E admin \in ConvAdmins : AssignAdminToConversation(1, admin)
    \/ \E caller \in {ThreadUser, Caller("admin", 11)} :
          SendMessage(caller, 1, ThreadText(caller), "ok")
    \/ \E caller \in {ThreadUser, Caller("admin", 11)} :
          MarkMessagesAsRead(caller, 1, caller.type)
    \/ \E id \in {1, 2} : ArchiveConversation(id)

SendStep(q) ==
    \/ CreateMessage(q)
    \/ UpdateData(q)
    \/ UpdateConversation(q)
    \/ FindMessage(q)
    \/ RespondMessage(q)

ReadStep(q) ==
    \/ MarkMessages(q)
    \/ ZeroUnreadCount(q)
    \/ RespondRead(q)

ThreadSeqStep(q) ==
    \/ AssignStep(q)
    \/ SendStep(q)
    \/ ReadStep(q)

ThreadStep(q) ==
    \/ ConversationLookedUp(q)
    \/ RespondArchived(q)
    \/ ThreadSeqStep(q)

NextThread ==
    \/ now <= 1 + MaxThreadCalls /\ ArriveThread /\ UNCHANGED <<alertVars, conns, io, adminVars>>
    \/ \E q \in mreq : ThreadStep(q) /\ UNCHANGED <<alertVars, conns, io, adminVars>>

SpecThread == InitThread /\ [][NextThread]_vars

----------------------------------------------------------------------------

(* The thread, one request at a time: texts short, padded with white space
   and longer than the preview, and the three media types *)

ThreadTexts == {RawText("hello", 5, 0), RawText("hello", 7, 2),
                RawText("long", 150, 0)}

ThreadBodies(caller) ==
    {Body(caller.type, "text", t, FALSE) : t \in ThreadTexts}
      \cup {Body(caller.type, mt, NoRawText, TRUE) : mt \in {"image", "video", "audio"}}

ThreadSeqCallers == {ThreadUser, Caller("admin", 11)}

ArriveThreadSeq ==
    \/ AssignAdminToConversation(1, 11)
    \/ \E caller \in ThreadSeqCallers : \E body \in ThreadBodies(caller) :
          SendMessage(caller, 1, body, "ok")
    \/ \E caller \in ThreadSeqCallers : MarkMessagesAsRead(caller, 1, caller.type)

NextThreadSeq ==
    \/ /\ mreq = {} /\ now <= 1 + MaxThreadSeqCalls
       /\ ArriveThreadSeq /\ UNCHANGED <<alertVars, conns, io, adminVars>>
    \/ \E q \in mreq : ThreadSeqStep(q) /\ UNCHANGED <<alertVars, conns, io, adminVars>>

SpecThreadSeq == InitThread /\ [][NextThreadSeq]_vars

----------------------------------------------------------------------------

(* sendMessage over its request bodies: every combination of caller,
   conversation id, sender type, message type, text, media data and upload
   outcome, on the thread *)

SendCallers == {ThreadUser, Caller("admin", 11)}
SendConversationIds == {NoId, 1, 2}
SendSenderTypes == {"", "user", "admin", "system"}
SendMessageTypes == {"", "image", "sticker"}
SendTexts == {NoRawText, RawText("hello", 5, 0), RawText("", 3, 3),
              RawText("long", 1001, 0)}

ArriveSendBody ==
    \E caller \in SendCallers, id \in SendConversationIds,
       senderType \in SendSenderTypes, messageType \in SendMessageTypes,
       text \in SendTexts, media \in BOOLEAN, upload \in {"ok", "error"} :
          SendMessage(caller, id, Body(senderType, messageType, text, media), upload)

NextSendBody ==
    \/ /\ mreq = {} /\ now <= 1 + MaxSendCalls
       /\ ArriveSendBody /\ UNCHANGED <<alertVars, conns, io, adminVars>>
    \/ \E q \in mreq : SendStep(q) /\ UNCHANGED <<alertVars, conns, io, adminVars>>

SpecSendBody == InitThread /\ [][NextSendBody]_vars

----------------------------------------------------------------------------

(* The socket layer of server.js *)

\* socket.handshake.auth.token and what verifyToken makes of it: kind "none"
\* is a handshake without token, "invalid" a token that verifyToken throws on
Token(kind, id, username, tokenType) ==
    [kind |-> kind, id |-> id, username |-> username, tokenType |-> tokenType]
NoToken == Token("none", NoId, "", "")
InvalidToken == Token("invalid", NoId, "", "")
UserToken(u) == Token("valid", UserRecord(u).id, u, "user")
AdminToken(id, username) == Token("valid", id, username, "admin")

\* a socket: the handshake it came with, whether the connection event has
\* run for it (its handlers are registered), the fields the middleware has
\* set, the rooms it is in, how many join and join-admin requests it has
\* sent and how many of them a handler has run for, the rooms its join
\* requests have named, and the events it has been sent, in order
Socket(token, connected) ==
    [auth |-> token.kind, connected |-> connected,
     userId |-> IF connected THEN token.id ELSE NoId,
     username |-> IF connected THEN token.username ELSE "",
     tokenType |-> IF connected THEN token.tokenType ELSE "",
     rooms |-> {}, sent |-> 0, handled |-> 0, asked |-> {}, inbox |-> <<>>]

\* (variant: the middleware lets a handshake without token through)
Authenticate_tokenOptional(token) == token.kind # "invalid"

\* io.use: next() for a token that verifyToken accepts, next(new Error(...))
\* otherwise
Authenticate(token) == token.kind = "valid"

\* a connection attempt: the middleware, and for an accepted socket the
\* connection event
Connect(token) ==
    /\ now' = now + 1
    /\ conns' = Append(conns, Socket(token, Authenticate(token)))
    /\ UNCHANGED <<alertVars, msgVars, events, io, adminVars>>

\* (variant: a username room is joined without the username check)
JoinAllowed_anyUsername(s, roomId) ==
    IF roomId.kind = "user-"
      THEN TRUE
      ELSE (roomId.kind = "id" /\ s.userId = roomId.id) \/ s.tokenType = "admin"

\* the checks of the join handler
JoinAllowed(s, roomId) ==
    IF roomId.kind = "user-"
      THEN s.username = roomId.name \/ s.tokenType = "admin"
      ELSE (roomId.kind = "id" /\ s.userId = roomId.id) \/ s.tokenType = "admin"

\* (variant: a socket that joins a room is sent what was published to the
\* room before)
Join_replayed(c, roomId) ==
    LET s == conns[c] IN
    /\ now' = now + 1
    /\ conns' = [conns EXCEPT ![c] =
           IF ~s.connected
             THEN [s EXCEPT !.sent = @ + 1, !.asked = @ \cup {roomId}]
           ELSE IF JoinAllowed(s, roomId)
             THEN [s EXCEPT !.sent = @ + 1, !.handled = @ + 1,
                            !.asked = @ \cup {roomId},
                            !.rooms = @ \cup {roomId},
                            !.inbox = @ \o SelectSeq(events,
                                                     LAMBDA e : e.room = roomId)]
           ELSE [s EXCEPT !.sent = @ + 1, !.handled = @ + 1,
                          !.asked = @ \cup {roomId}]]
    /\ UNCHANGED <<alertVars, msgVars, events, io, adminVars>>

\* a join request of socket c: it reaches the handler only when the
\* connection event has registered one
Join(c, roomId) ==
    LET s == conns[c] IN
    /\ now' = now + 1
    /\ conns' = [conns EXCEPT ![c] =
           IF ~s.connected
             THEN [s EXCEPT !.sent = @ + 1, !.asked = @ \cup {roomId}]
           ELSE IF JoinAllowed(s, roomId)
             THEN [s EXCEPT !.sent = @ + 1, !.handled = @ + 1,
                            !.asked = @ \cup {roomId},
                            !.rooms = @ \cup {roomId}]
           ELSE [s EXCEPT !.sent = @ + 1, !.handled = @ + 1,
                          !.asked = @ \cup {roomId}]]
    /\ UNCHANGED <<alertVars, msgVars, events, io, adminVars>>

\* (variant: join-admin does not look at the token type)
JoinAdmin_anyTokenType(c, adminId) ==
    LET s == conns[c] IN
    /\ now' = now + 1
    /\ conns' = [conns EXCEPT ![c] =
           IF ~s.connected THEN [s EXCEPT !.sent = @ + 1]
           ELSE IF s.userId = adminId
             THEN [s EXCEPT !.sent = @ + 1, !.handled = @ + 1,
                            !.rooms = @ \cup {ADMIN_ROOM, IdRoom(adminId)}]
           ELSE [s EXCEPT !.sent = @ + 1, !.handled = @ + 1]]
    /\ UNCHANGED <<alertVars, msgVars, events, io, adminVars>>

\* a join-admin request of socket c
JoinAdmin(c, adminId) ==
    LET s == conns[c] IN
    /\ now' = now + 1
    /\ conns' = [conns EXCEPT ![c] =
           IF ~s.connected THEN [s EXCEPT !.sent = @ + 1]
           ELSE IF s.tokenType = "admin" /\ s.userId = adminId
             THEN [s EXCEPT !.sent = @ + 1, !.handled = @ + 1,
                            !.rooms = @ \cup {ADMIN_ROOM, IdRoom(adminId)}]
           ELSE [s EXCEPT !.sent = @ + 1, !.handled = @ + 1]]
    /\ UNCHANGED <<alertVars, msgVars, events, io, adminVars>>

\* the handshakes and the rooms asked for: no token, a bad one, an owner and
\* an operator; the rooms of two owners and two operators and the admin room
SocketTokens == {NoToken, InvalidToken, UserToken("alice"), AdminToken(11, "op1")}
SocketRooms == {UserRoom("alice"), UserRoom("bob"), IdRoom(1), IdRoom(2),
                IdRoom(11), IdRoom(12), ADMIN_ROOM}
\* the ids named in join-admin requests: an owner's and two operators'
SocketAdminIds == {1, 11, 12}

NextSocket ==
    \/ now <= MaxSocketCalls /\ \E token \in SocketTokens : Connect(token)
    \/ now <= MaxSocketCalls /\ \E c \in 1..Len(conns), roomId \in SocketRooms :
          Join(c, roomId)
    \/ now <= MaxSocketCalls /\ \E c \in 1..Len(conns), adminId \in SocketAdminIds :
          JoinAdmin(c, adminId)

SpecSocket == Init /\ [][NextSocket]_vars

----------------------------------------------------------------------------

(* Dispatch: the alert handlers publishing to the rooms the sockets are in *)

\* io.to(room).emit(name, data) of the steps taken: each event published goes
\* to the sockets that are in its room now, and is kept nowhere
Deliver ==
    LET published == SubSeq(events', Len(events) + 1, Len(events')) IN
    conns' = [c \in 1..Len(conns) |->
                 [conns[c] EXCEPT !.inbox =
                     @ \o SelectSeq(published,
                                    LAMBDA e : e.room \in conns[c].rooms)]]

DispatchTokens == {UserToken("alice"), AdminToken(11, "op1")}
DispatchRooms == {UserRoom("alice"), IdRoom(1), ADMIN_ROOM}
DispatchPoint == <<Num(14), Num(120)>>

InitDispatch ==
    /\ alerts = <<>>
    /\ req = {}
    /\ events = <<>>
    /\ log = <<>>
    /\ now = 1
    /\ NoConversations
    /\ NoConnections
    /\ NoPasswordRequests
    /\ io \in BOOLEAN

ArriveDispatch ==
    \/ SendSOS(Owner, Owner, DispatchPoint[1], DispatchPoint[2], "ok")
    \/ CancelSOS(Owner, Owner)
    \/ \E id \in 1..Len(alerts) : ResolveSOS(id)

\* alert requests one at a time, socket requests at any moment
NextDispatch ==
    \/ /\ req = {} /\ now <= MaxDispatchCalls
       /\ ArriveDispatch /\ UNCHANGED <<msgVars, conns, io, adminVars>>
    \/ \E q \in req : Step(q) /\ Deliver /\ UNCHANGED <<msgVars, io, adminVars>>
    \/ now <= MaxDispatchCalls /\ \E token \in DispatchTokens : Connect(token)
    \/ now <= MaxDispatchCalls /\ \E c \in 1..Len(conns), roomId \in DispatchRooms :
          Join(c, roomId)
    \/ now <= MaxDispatchCalls /\ \E c \in 1..Len(conns) : JoinAdmin(c, 11)

SpecDispatch == InitDispatch /\ [][NextDispatch]_vars

----------------------------------------------------------------------------

(* Properties of the alert lifecycle *)

Terminal(status) == status \in {STATUS_RESOLVED, STATUS_CANCELLED}

AlertsOf(username) == {i \in 1..Len(alerts) : alerts[i].username = username}

\* C1: for every owner the store holds at most one alert with status active,
\* whatever the interleaving of raise, cancel and resolve requests.
OneActivePerOwner ==
    \A u \in Users :
        Cardinality({i \in AlertsOf(u) : alerts[i].status = "active"}) <= 1

\* C2: once an alert is resolved or cancelled, no step changes its status.
TerminalStatusIsFinal ==
    [][\A i \in 1..Len(alerts) :
          Terminal(alerts[i].status) => alerts'[i].status = alerts[i].status]_vars

\* C3: for every alert, at most one cancel or resolve request reports success,
\* and at most one terminal event is published for it to the admin room.
TerminalSuccesses(id) ==
    {k \in 1..Len(log) :
        /\ log[k].op \in {"cancel", "resolve"}
        /\ log[k].res.code = 200
        /\ log[k].res.data.id = id}

TerminalEventsOf(id) ==
    {k \in 1..Len(events) :
        /\ events[k].name \in {"sos-cancelled", "sos-resolved"}
        /\ events[k].room = ADMIN_ROOM
        /\ events[k].id = id}

OneTerminalTransition ==
    \A id \in 1..Len(alerts) :
        /\ Cardinality(TerminalSuccesses(id)) <= 1
        /\ Cardinality(TerminalEventsOf(id)) <= 1

\* C4: two raises in a row by one owner, both passing the request checks and
\* from different positions, the first of which found no active alert: the
\* first answers 'created' (201), the second 'updated' (200) for the same
\* alert, whose history then has the two positions in order and whose
\* position is the second call's; an owner without any earlier alert has
\* exactly that one alert stored.
PassedChecks(c) == c.op = "send" /\ c.res.code \in {200, 201}

FirstAlertOf(u, k) ==
    \A j \in 1..(k - 1) : ~(PassedChecks(log[j]) /\ log[j].username = u)

RaiseTwice ==
    \A k \in 1..(Len(log) - 1) :
        LET a == log[k]
            b == log[k + 1]
            id == a.res.data.id
        IN  ( /\ PassedChecks(a) /\ PassedChecks(b)
              /\ a.username = b.username
              /\ <<a.lat, a.lon>> # <<b.lat, b.lon>>
              /\ (a.res.code = 201 \/ FirstAlertOf(a.username, k)) )
            => /\ a.res.code = 201 /\ a.res.message = "SOS sent successfully"
               /\ b.res.code = 200
               /\ b.res.message = "SOS location updated successfully"
               /\ b.res.data.id = id
               /\ b.res.data.updateCount = 2
               /\ b.res.data.latitude = b.lat.v /\ b.res.data.longitude = b.lon.v
               /\ (k + 1 = Len(log) /\ req = {}) =>
                     /\ {i \in AlertsOf(a.username) : alerts[i].status = "active"} = {id}
                     /\ FirstAlertOf(a.username, k) => AlertsOf(a.username) = {id}
                     /\ alerts[id].latitude = b.lat.v
                     /\ alerts[id].longitude = b.lon.v
                     /\ Len(alerts[id].locationHistory) = 2
                     /\ alerts[id].locationHistory[1].latitude = a.lat.v
                     /\ alerts[id].locationHistory[1].longitude = a.lon.v
                     /\ alerts[id].locationHistory[2].latitude = b.lat.v
                     /\ alerts[id].locationHistory[2].longitude = b.lon.v

RaiseTwiceWitness ==
    /\ req = {} /\ Len(log) >= 2
    /\ LET a == log[Len(log) - 1]
           b == log[Len(log)]
       IN  /\ a.op = "send" /\ b.op = "send" /\ a.username = b.username
           /\ a.res.code = 201 /\ b.res.code = 200
           /\ a.lat # b.lat
           /\ Len(alerts[b.res.data.id].locationHistory) = 2

\* C5: after n sequential raises of one owner with no cancel or resolve in
\* between, the history has min(n, 50) entries: the positions of the most
\* recent min(n, 50) raises, in the order the raises were made.
Min(a, b) == IF a < b THEN a ELSE b

TrailIsLastFifty ==
    (req = {} /\ Len(log) >= 1) =>
        LET n == Len(log)
            h == alerts[1].locationHistory
            m == Min(n, 50)
        IN  /\ Len(alerts) = 1
            /\ \A k \in 1..n : PassedChecks(log[k])
            /\ Len(h) = m
            /\ \A i \in 1..m :
                  /\ h[i].latitude = log[n - m + i].lat.v
                  /\ h[i].longitude = log[n - m + i].lon.v

TrailIsLastFiftyWitness ==
    /\ req = {} /\ Len(log) = 60
    /\ Len(alerts[1].locationHistory) = 50
    /\ alerts[1].locationHistory[1].latitude = log[11].lat.v
    /\ alerts[1].locationHistory[50].latitude = log[60].lat.v

\* C6: every stored alert's history has at most 50 entries, also when raises
\* of one owner overlap.
HistoryCapped ==
    \A i \in 1..Len(alerts) : Len(alerts[i].locationHistory) <= 50


\* C7: a resolve request whose lookup returned an alert that is already
\* resolved or cancelled is answered with an error (400) whose message names
\* that status; the step that answers changes no alert (status, resolvedAt,
\* cancelledAt), publishes no event and starts no write, and neither does the
\* step in which the request arrives and looks the alert up.
ResolveOfTerminalRejected ==
    [][/\ \A q \in req \ req' :
             ( /\ q.op = "resolve" /\ q.pc = "found" /\ q.id # 0
               /\ q.snap.status \in {"resolved", "cancelled"} ) =>
                 /\ Len(log') = Len(log) + 1
                 /\ LET c == log'[Len(log')] IN
                       /\ c.op = "resolve" /\ c.sosId = q.id
                       /\ c.res.code = 400
                       /\ c.res.message = <<"SOS is already", q.snap.status>>
                 /\ alerts' = alerts
                 /\ events' = events
                 /\ req' = req \ {q}
       /\ \A q \in req' \ req :
             (q.op = "resolve" /\ q.pc = "found") =>
                 /\ alerts' = alerts /\ events' = events /\ log' = log
                 /\ q.id \in 1..Len(alerts) => q.snap = alerts[q.id]]_vars

ResolveOfTerminalRejectedWitness ==
    /\ Len(log) >= 1
    /\ LET c == log[Len(log)] IN
          /\ c.op = "resolve" /\ c.res.code = 400
          /\ c.res.message = <<"SOS is already", "resolved">>
          /\ alerts[c.sosId].status = "resolved"
          /\ alerts[c.sosId].resolvedAt # NoDate

\* C8: a cancel request of an owner who has no active alert finds none, and
\* is answered 404 'No active SOS found'; neither its lookup nor its answer
\* adds an alert, changes an alert (the owner's earlier resolved or cancelled
\* alerts included), publishes an event or starts a write.
CancelWithoutActiveRejected ==
    [][/\ \A q \in req' \ req :
             ( /\ q.op = "cancel" /\ q.pc = "found"
               /\ \A i \in 1..Len(alerts) :
                     alerts[i].username = q.username => alerts[i].status # "active" ) =>
                 /\ q.id = 0
                 /\ alerts' = alerts /\ events' = events /\ log' = log
       /\ \A q \in req \ req' :
             (q.op = "cancel" /\ q.pc = "found" /\ q.id = 0) =>
                 /\ Len(log') = Len(log) + 1
                 /\ LET c == log'[Len(log')] IN
                       /\ c.op = "cancel" /\ c.username = q.username
                       /\ c.res.code = 404
                       /\ c.res.message = "No active SOS found"
                 /\ alerts' = alerts
                 /\ events' = events
                 /\ req' = req \ {q}]_vars

CancelWithoutActiveRejectedWitness ==
    /\ req = {} /\ Len(log) >= 1
    /\ LET c == log[Len(log)] IN
          /\ c.op = "cancel" /\ c.res.code = 404
          /\ \E i \in AlertsOf(c.username) : Terminal(alerts[i].status)

\* C9: resolvedAt is set only on a resolved alert, cancelledAt only on a
\* cancelled one (so never both), and a resolved alert has its resolvedAt, a
\* cancelled alert its cancelledAt.
TerminalStampsMatchStatus ==
    \A i \in 1..Len(alerts) :
        /\ alerts[i].resolvedAt # NoDate <=> alerts[i].status = "resolved"
        /\ alerts[i].cancelledAt # NoDate <=> alerts[i].status = "cancelled"

\* C10: a raise of an owner whose alerts are all resolved or cancelled looks
\* up no alert to update; its save adds a new alert under a fresh id, active,
\* at the raised position, with a one-entry history and no terminal
\* timestamp, and leaves every stored alert as it was; it answers 'created'
\* with that id.
RaiseAfterTerminalCreates ==
    [][/\ \A q \in req' \ req :
            ( /\ q.op = "send" /\ q.n = now /\ now' = now + 1
              /\ \E i \in 1..Len(alerts) : alerts[i].username = q.username
              /\ \A i \in 1..Len(alerts) :
                    alerts[i].username = q.username =>
                        alerts[i].status \in {"resolved", "cancelled"} )
            => q.id = NoId /\ q.snap = NoDoc /\ alerts' = alerts
       /\ \A q \in req \ req' :
            (q.op = "send" /\ q.pc = "saving" /\ q.id = NoId) =>
                /\ Len(alerts') = Len(alerts) + 1
                /\ SubSeq(alerts', 1, Len(alerts)) = alerts
                /\ LET d == alerts'[Len(alerts')] IN
                      /\ d.username = q.username
                      /\ d.status = "active"
                      /\ d.latitude = q.lat /\ d.longitude = q.lon
                      /\ Len(d.locationHistory) = 1
                      /\ d.locationHistory[1].latitude = q.lat
                      /\ d.locationHistory[1].longitude = q.lon
                      /\ d.resolvedAt = NoDate /\ d.cancelledAt = NoDate
                /\ \E q2 \in req' \ req :
                      q2.n = q.n /\ q2.pc = "saved" /\ q2.id = Len(alerts')
       /\ \A q \in req \ req' :
            (q.op = "send" /\ q.pc = "saved" /\ q.snap = NoDoc) =>
                /\ alerts' = alerts
                /\ log'[Len(log')].res.code = 201
                /\ log'[Len(log')].res.data.id = q.id]_vars

RaiseAfterTerminalCreatesWitness ==
    /\ req = {} /\ Len(log) >= 1
    /\ LET c == log[Len(log)]
           id == c.res.data.id
       IN  /\ c.op = "send" /\ c.res.code = 201
           /\ id = Len(alerts) /\ id >= 2
           /\ alerts[id].status = "active"
           /\ Len(alerts[id].locationHistory) = 1
           /\ \E i \in 1..(id - 1) :
                 /\ alerts[i].username = c.username
                 /\ Terminal(alerts[i].status)
                 /\ Len(alerts[i].locationHistory) = 1
                 /\ alerts[i].timestamp < alerts[id].timestamp


\* C11: once an alert is resolved or cancelled, no step changes its
\* latitude, longitude, address or locationHistory.
PositionFrozenOnceTerminal ==
    [][\A i \in 1..Len(alerts) :
          alerts[i].status \in {"resolved", "cancelled"} =>
              /\ alerts'[i].latitude = alerts[i].latitude
              /\ alerts'[i].longitude = alerts[i].longitude
              /\ alerts'[i].address = alerts[i].address
              /\ alerts'[i].locationHistory = alerts[i].locationHistory]_vars


\* C12: a raise or cancel whose username differs from the caller's is
\* rejected, starts no handler work, changes no alert and publishes no event;
\* no successful raise or cancel was made for somebody else; and a resolve is
\* turned down only for an unknown id or an alert that is no longer active,
\* never because of who owns the alert.
OwnAlertOnly ==
    [][/\ \A q \in req \ req' :
            ( /\ q.op = "resolve" /\ Len(log') = Len(log) + 1
              /\ log'[Len(log')].res.code # 200 ) =>
                \/ q.id \notin 1..Len(alerts)
                \/ q.snap.status # "active"
       /\ now' = now + 1 =>
         /\ \A q \in req' \ req :
               q.op \in {"send", "cancel"} => q.caller = q.username
         /\ Len(log') = Len(log) + 1 =>
               LET c == log'[Len(log')] IN
               /\ (c.op \in {"send", "cancel"} /\ c.caller # c.username) =>
                     /\ c.res.code \in {400, 500}
                     /\ alerts' = alerts /\ events' = events /\ req' = req
               /\ c.op # "resolve"]_vars

\* bob's alert is active, alice's cancel and raise for bob were turned down
\* with 400, and somebody else's resolve of bob's alert went through
OwnAlertOnlyWitness ==
    /\ \E i \in 1..Len(log) :
          /\ log[i].op \in {"send", "cancel"}
          /\ log[i].caller = "alice" /\ log[i].username = "bob"
          /\ log[i].res.code = 400
          /\ \E k \in 1..Len(alerts) : alerts[k].username = "bob"
    /\ \E j \in 1..Len(log) :
          /\ log[j].op = "resolve" /\ log[j].res.code = 200
          /\ alerts[log[j].sosId].username = "bob"


\* C13: a raise of an owner for themself is accepted exactly when latitude
\* and longitude are numbers in [-90, 90] and [-180, 180], 0 included; any
\* other raise is answered 400 and changes no alert and publishes no event.
RaiseAcceptsCoordinateRange ==
    [][now' = now + 1 =>
         /\ \A q \in req' \ req :
               q.op = "send" => q.lat \in -90..90 /\ q.lon \in -180..180
         /\ Len(log') = Len(log) + 1 =>
               LET c == log'[Len(log')] IN
               (c.op = "send" /\ c.caller = c.username) =>
                   /\ ~ /\ c.lat.t = "number" /\ c.lon.t = "number"
                        /\ c.lat.v \in -90..90 /\ c.lon.v \in -180..180
                   /\ c.res.code = 400
                   /\ alerts' = alerts /\ events' = events /\ req' = req]_vars


RaiseEvents == {"sos-alert", "sos-updated"}

\* C14: a raise that succeeds publishes exactly one event, to the admin
\* room: sos-alert when its handler inserted a new alert (answer 201),
\* sos-updated when it saved an alert it had found active (answer 200); a
\* raise's save inserts exactly when no active alert was found; and no other
\* step publishes a raise event.
RaiseEventMatchesPath ==
    [][/\ \A q \in req \ req' :
            (q.op = "send" /\ q.pc = "saving" /\ alerts' # alerts) =>
                (Len(alerts') = Len(alerts) + 1 <=> q.snap.status # "active")
       /\ \A q \in req \ req' :
            (q.op = "send" /\ q.pc = "saved") =>
                LET c == log'[Len(log')]
                    e == events'[Len(events')]
                    created == q.snap.status # "active"
                IN  /\ Len(log') = Len(log) + 1
                    /\ c.op = "send" /\ c.res.code = (IF created THEN 201 ELSE 200)
                    /\ Len(events') = Len(events) + 1
                    /\ SubSeq(events', 1, Len(events)) = events
                    /\ e.room = [kind |-> "admin-room", name |-> "", id |-> 0]
                    /\ e.id = q.id
                    /\ e.name = (IF created THEN "sos-alert" ELSE "sos-updated")
       /\ (\E k \in (Len(events) + 1)..Len(events') : events'[k].name \in RaiseEvents)
            => \E q \in req \ req' : q.op = "send" /\ q.pc = "saved"]_vars

\* one raise was answered 201 after a sos-alert, another 200 after a
\* sos-updated, each event in the admin room
RaiseEventMatchesPathWitness ==
    /\ \E i, j \in 1..Len(log) :
          /\ log[i].op = "send" /\ log[i].res.code = 201
          /\ log[j].op = "send" /\ log[j].res.code = 200
    /\ \E i, j \in 1..Len(events) :
          /\ events[i].name = "sos-alert" /\ events[j].name = "sos-updated"
          /\ events[i].room.kind = "admin-room" /\ events[j].room.kind = "admin-room"


\* C15: every successful cancel publishes sos-cancelled, and every successful
\* resolve sos-resolved, once to each of: the room user-<username> of the
\* alert's owner, the room named by the owner's id when the alert has one,
\* and the admin room; and to no other room.
TerminalEventRooms ==
    [][\A q \in req \ req' :
          (q.op \in {"cancel", "resolve"} /\ q.pc = "saved") =>
              LET d == alerts[q.id]
                  published == SubSeq(events', Len(events) + 1, Len(events'))
                  rooms == {[kind |-> "user-", name |-> d.username, id |-> 0],
                            [kind |-> "admin-room", name |-> "", id |-> 0]}
                           \cup (IF d.userId # 0
                                   THEN {[kind |-> "id", name |-> "", id |-> d.userId]}
                                   ELSE {})
              IN  /\ log'[Len(log')].res.code = 200
                  /\ {published[k].room : k \in 1..Len(published)} = rooms
                  /\ Len(published) = Cardinality(rooms)
                  /\ \A k \in 1..Len(published) :
                        /\ published[k].id = q.id
                        /\ published[k].name =
                              (IF q.op = "cancel" THEN "sos-cancelled"
                                                  ELSE "sos-resolved")]_vars


\* C16: whatever the reverse lookup does, a raise is turned down only by the
\* request checks; the address a raise carries is the lookup's display name
\* or, when the lookup failed, 'Location not available'; its save stores that
\* address on an active alert, and it is answered 201 or 200.
GeocodingNeverAborts ==
    [][/\ (now' = now + 1 /\ Len(log') = Len(log) + 1
              /\ log'[Len(log')].op = "send") =>
            LET c == log'[Len(log')] IN
            c.caller # c.username \/ c.lat.v = 0 \/ c.lon.v = 0
       /\ \A q \in req' \ req :
            (now' = now + 1 /\ q.op = "send") =>
                q.address \in
                    {[text |-> "display_name", lat |-> q.lat, lon |-> q.lon],
                     [text |-> "Location not available", lat |-> 0, lon |-> 0]}
       /\ \A q \in req \ req' :
            (q.op = "send" /\ q.pc = "saving") =>
                \E k \in 1..Len(alerts') :
                    /\ k = q.id \/ (q.id = 0 /\ k = Len(alerts) + 1)
                    /\ alerts'[k].status = "active"
                    /\ alerts'[k].address = q.address
                    /\ alerts'[k].latitude = q.lat /\ alerts'[k].longitude = q.lon
                    /\ alerts'[k].locationHistory[Len(alerts'[k].locationHistory)].address
                          = q.address
                    /\ \E r \in req' : r.n = q.n /\ r.pc = "saved" /\ r.id = k
       /\ \A q \in req \ req' :
            (q.op = "send" /\ q.pc = "saved") =>
                /\ Len(log') = Len(log) + 1
                /\ log'[Len(log')].res.code \in {200, 201}
                /\ log'[Len(log')].res.data.id = q.id]_vars

\* an alert was created, and then updated, by raises whose lookup failed
GeocodingNeverAbortsWitness ==
    /\ req = {}
    /\ \E k \in 1..Len(alerts) :
          /\ alerts[k].status = "active"
          /\ Len(alerts[k].locationHistory) = 2
          /\ \A h \in 1..2 :
                alerts[k].locationHistory[h].address.text = "Location not available"
          /\ alerts[k].address.text = "Location not available"
          /\ \E i, j \in 1..Len(log) :
                /\ log[i].res.code = 201 /\ log[i].res.data.id = k
                /\ log[j].res.code = 200 /\ log[j].res.data.id = k


\* C17: a raise for a username that has no User record is turned down only
\* for its coordinates; its save creates, or updates, an active alert of that
\* username whose owner id is null, and it is answered 201 or 200.
UnresolvedOwnerStillRaises ==
    [][/\ (now' = now + 1 /\ Len(log') = Len(log) + 1) =>
            LET c == log'[Len(log')] IN
            (c.op = "send" /\ c.caller = c.username
               /\ c.username \notin {"alice", "bob"}) =>
                \/ c.lat.t # "number" \/ c.lon.t # "number"
                \/ c.lat.v = 0 \/ c.lon.v = 0
                \/ c.lat.v \notin -90..90 \/ c.lon.v \notin -180..180
       /\ \A q \in req \ req' :
            (q.op = "send" /\ q.username \notin {"alice", "bob"}) =>
                /\ q.pc = "saving" =>
                      \E k \in 1..Len(alerts') :
                          /\ k = q.id \/ (q.id = 0 /\ k = Len(alerts) + 1)
                          /\ alerts'[k].username = q.username
                          /\ alerts'[k].status = "active"
                          /\ alerts'[k].userId = 0
                          /\ alerts'[k].fullname = q.username
                          /\ alerts'[k].latitude = q.lat
                          /\ alerts'[k].longitude = q.lon
                          /\ \E r \in req' : r.n = q.n /\ r.pc = "saved" /\ r.id = k
                /\ q.pc = "saved" =>
                      /\ Len(log') = Len(log) + 1
                      /\ log'[Len(log')].res.code \in {200, 201}
                      /\ log'[Len(log')].res.data.id = q.id
                      /\ log'[Len(log')].res.data.status = "active"]_vars

\* carol, who has no User record, raised twice: one active alert with a null
\* owner id, created by the first raise and updated by the second
UnresolvedOwnerStillRaisesWitness ==
    /\ req = {}
    /\ \E k \in 1..Len(alerts) :
          /\ alerts[k].username = "carol" /\ alerts[k].userId = 0
          /\ alerts[k].status = "active"
          /\ Len(alerts[k].locationHistory) = 2
          /\ \E i, j \in 1..Len(log) :
                /\ log[i].username = "carol" /\ log[i].res.code = 201
                /\ log[j].username = "carol" /\ log[j].res.code = 200
                /\ log[i].res.data.id = k /\ log[j].res.data.id = k


----------------------------------------------------------------------------
(* Properties of conversations *)

ConversationsOfOwner(userId) == {i \in 1..Len(convs) : convs[i].userId = userId}

MessagesOf(id) == {k \in 1..Len(msgs) : msgs[k].conversationId = id}

\* C18: once getOrCreate calls of one owner who had no conversation, all
\* without an assignee and overlapping in any way, have all been answered,
\* the store holds exactly one conversation of that owner with exactly one
\* message, and every call was answered 200 with that conversation.
OneConversationForNewOwner ==
    \A u \in {1, 2} :
        ( /\ mreq = {}
          /\ Len(mlog) >= 1
          /\ \A i \in 1..Len(mlog) :
                /\ mlog[i].op = "getOrCreate"
                /\ mlog[i].userId = u /\ mlog[i].adminId = 0 )
        => /\ Cardinality(ConversationsOfOwner(u)) = 1
           /\ \A id \in ConversationsOfOwner(u) :
                 /\ Cardinality(MessagesOf(id)) = 1
                 /\ \A i \in 1..Len(mlog) :
                       mlog[i].res.code = 200 /\ mlog[i].res.id = id


\* C19: no owner has two conversations whose status is active.
OneActiveConversationPerOwner ==
    \A u \in {1, 2, 3} :
        Cardinality({i \in 1..Len(convs) :
                        convs[i].userId = u /\ convs[i].status = "active"}) <= 1


\* C20: the lookup of a getOrCreate for an owner, and an assignee when one is
\* given, returns a stored conversation that matches whenever there is one;
\* the request is then answered 200 with that conversation as stored, and
\* neither its lookup nor its answer creates or changes anything: the
\* collections are as before and the request has ended. Only a getOrCreate
\* whose lookup matched nothing goes on to create.
FoundConversationUnchanged ==
    [][/\ \A q \in mreq' \ mreq :
             (q.op = "getOrCreate" /\ q.pc = "looked") =>
                 LET found == {i \in 1..Len(convs) :
                                  /\ convs[i].userId = q.userId
                                  /\ q.adminId = 0 \/ convs[i].adminId = q.adminId}
                 IN  /\ q.id = 0 <=> found = {}
                     /\ q.id # 0 => (q.id \in found /\ q.snap = convs[q.id])
                     /\ convs' = convs /\ msgs' = msgs /\ mlog' = mlog
                     /\ admins' = admins /\ events' = events
       /\ \A q \in mreq \ mreq' :
             (q.op = "getOrCreate" /\ q.pc = "looked" /\ q.id # 0) =>
                 LET c == mlog'[Len(mlog')] IN
                 /\ Len(mlog') = Len(mlog) + 1
                 /\ c.op = "getOrCreate" /\ c.res.code = 200
                 /\ c.res.id = q.id /\ c.res.conv = convs[q.id]
                 /\ convs' = convs /\ msgs' = msgs /\ mreq' = mreq \ {q}
                 /\ admins' = admins /\ events' = events
       /\ Len(convs') > Len(convs) =>
             \E q \in mreq \ mreq' : q.op = "getOrCreate" /\ q.id = 0]_vars

\* a getOrCreate created the owner's conversation and a later one, for the
\* same owner, was answered with it: still one conversation, one message,
\* one unread message for the owner
FoundConversationUnchangedWitness ==
    /\ mreq = {}
    /\ Len(convs) = 1 /\ Len(msgs) = 1
    /\ convs[1].unreadCountUser = 1 /\ convs[1].unreadCountAdmin = 0
    /\ \E i, j \in 1..Len(mlog) :
          /\ i < j
          /\ mlog[i].op = "getOrCreate" /\ mlog[j].op = "getOrCreate"
          /\ mlog[i].userId = mlog[j].userId
          /\ mlog[i].res.code = 200 /\ mlog[j].res.code = 200
          /\ mlog[i].res.id = 1 /\ mlog[j].res.id = 1
          /\ mlog[j].res.conv = convs[1]

\* C21: a getOrCreate that created a conversation is answered 200 with it,
\* and the conversation then has exactly one message, the system welcome
\* message (senderType admin, isRead false), unreadCountUser 1 and
\* unreadCountAdmin 0.
CreatedConversationIsWelcomed ==
    [][\A q \in mreq \ mreq' :
          ( /\ q.op = "getOrCreate" /\ q.pc # "looked"
            /\ ~ \E r \in mreq' : r.n = q.n ) =>
              LET c == mlog'[Len(mlog')]
                  mine == {k \in 1..Len(msgs') : msgs'[k].conversationId = q.id}
              IN  /\ q.pc = "saved"
                  /\ Len(mlog') = Len(mlog) + 1
                  /\ c.op = "getOrCreate" /\ c.res.code = 200 /\ c.res.id = q.id
                  /\ c.res.conv = convs'[q.id]
                  /\ convs'[q.id].userId = q.userId
                  /\ convs'[q.id].unreadCountUser = 1
                  /\ convs'[q.id].unreadCountAdmin = 0
                  /\ Cardinality(mine) = 1
                  /\ \A k \in mine :
                        /\ msgs'[k].senderType = "admin"
                        /\ msgs'[k].isRead = FALSE
                        /\ msgs'[k].senderId = 10
                        /\ msgs'[k].text.body =
                              "You're now connected to ResqYOU Emergency Respondents"]_vars

\* a getOrCreate has created bob's conversation and has been answered
CreatedConversationIsWelcomedWitness ==
    /\ mreq = {}
    /\ \E i \in 1..Len(convs) :
          /\ convs[i].userId = 2 /\ convs[i].unreadCountUser = 1
          /\ Cardinality(MessagesOf(i)) = 1
          /\ \E j \in 1..Len(mlog) :
                /\ mlog[j].op = "getOrCreate" /\ mlog[j].res.code = 200
                /\ mlog[j].res.id = i
                /\ \A h \in 1..(j - 1) : mlog[h].res.id # i

\* C22: an assign for an id that no conversation has is answered 404 and
\* changes nothing. The first save of an assign records the operator's id and
\* name and nothing else; when the conversation had an assignee, that is all:
\* no message is created and the call is answered 200. When it had none, the
\* call goes on to create exactly one message from that operator (senderType
\* admin, isRead false), then raises unreadCountUser by 1 with its second
\* save, and is answered 200 with the conversation as stored.
AssignEffect ==
    [][/\ \A q \in mreq' \ mreq :
            (now' = now + 1 /\ q.op = "assign") =>
                /\ q.pc = "missing" <=> q.id \notin 1..Len(convs)
                /\ convs' = convs /\ msgs' = msgs /\ mlog' = mlog
       /\ \A q \in mreq \ mreq' :
            (q.op = "assign" /\ q.pc = "missing") =>
                /\ Len(mlog') = Len(mlog) + 1
                /\ mlog'[Len(mlog')].res.code = 404
                /\ convs' = convs /\ msgs' = msgs /\ mreq' = mreq \ {q}
       /\ \A q \in mreq \ mreq' :
            (q.op = "assign" /\ q.pc # "missing") =>
                LET cur == convs[q.id]
                    nxt == convs'[q.id]
                    goesTo(pc) == \E r \in mreq' \ mreq : r.n = q.n /\ r.pc = pc
                IN
                /\ Len(convs') = Len(convs)
                /\ \A i \in 1..Len(convs) : i # q.id => convs'[i] = convs[i]
                /\ q.pc = "found" =>
                      /\ nxt = [cur EXCEPT !.adminId = q.adminId,
                                           !.adminName = AdminById(q.adminId).fullname]
                      /\ msgs' = msgs /\ mlog' = mlog
                      /\ goesTo(IF cur.adminId # 0 THEN "saved" ELSE "assigned")
                /\ q.pc = "assigned" =>
                      /\ cur.adminId = q.adminId
                      /\ convs' = convs /\ mlog' = mlog
                      /\ Len(msgs') = Len(msgs) + 1
                      /\ SubSeq(msgs', 1, Len(msgs)) = msgs
                      /\ msgs'[Len(msgs')].conversationId = q.id
                      /\ msgs'[Len(msgs')].senderType = "admin"
                      /\ msgs'[Len(msgs')].senderId = q.adminId
                      /\ msgs'[Len(msgs')].isRead = FALSE
                      /\ goesTo("welcomed")
                /\ q.pc = "welcomed" =>
                      /\ convs' = convs /\ msgs' = msgs /\ mlog' = mlog
                      /\ goesTo("saving")
                /\ q.pc = "saving" =>
                      /\ nxt.unreadCountUser = cur.unreadCountUser + 1
                      /\ nxt.unreadCountAdmin = cur.unreadCountAdmin
                      /\ nxt.adminId = q.adminId /\ nxt.status = cur.status
                      /\ msgs' = msgs /\ mlog' = mlog
                      /\ goesTo("saved")
                /\ q.pc = "saved" =>
                      /\ convs' = convs /\ msgs' = msgs
                      /\ mreq' = mreq \ {q}
                      /\ Len(mlog') = Len(mlog) + 1
                      /\ mlog'[Len(mlog')].res.code = 200
                      /\ mlog'[Len(mlog')].res.conv = cur]_vars

\* a conversation created without an assignee was assigned to operator 11 and
\* then to operator 12: two messages, the second one from operator 11, two
\* unread messages for the owner, operator 12 recorded
AssignEffectWitness ==
    /\ mreq = {}
    /\ Len(mlog) = 3
    /\ mlog[2].op = "assign" /\ mlog[2].adminId = 11 /\ mlog[2].res.code = 200
    /\ mlog[3].op = "assign" /\ mlog[3].adminId = 12 /\ mlog[3].res.code = 200
    /\ mlog[2].id = mlog[3].id
    /\ convs[mlog[3].id].adminId = 12
    /\ convs[mlog[3].id].unreadCountUser = 2
    /\ Cardinality(MessagesOf(mlog[3].id)) = 2
    /\ \E k \in MessagesOf(mlog[3].id) : msgs[k].senderId = 11

\* C37: every stored alert has a non-empty locationHistory whose last entry
\* has the latitude and longitude of the alert, and the updateCount that a
\* raise answers with 'updated' is the length of the stored locationHistory.
HistoryEndsAtPosition ==
    /\ [](\A i \in 1..Len(alerts) :
             /\ Len(alerts[i].locationHistory) >= 1
             /\ LET last == alerts[i].locationHistory[Len(alerts[i].locationHistory)] IN
                   /\ last.latitude = alerts[i].latitude
                   /\ last.longitude = alerts[i].longitude)
    /\ [][\A q \in req :
             (q.op = "send" /\ q.pc = "saved" /\ q \notin req' /\ q.snap # NoDoc) =>
                log'[Len(log')].res.data.updateCount =
                   Len(alerts[q.id].locationHistory)]_vars

\* C38: every event that a step publishes is published by a request whose
\* save has been committed, and names an alert that the store holds with the
\* status the event carries; a step that answers a request whose save has
\* not been committed (it was rejected, or its save failed) publishes
\* nothing.
PublishedAfterCommit ==
    [][/\ \A k \in (Len(events) + 1)..Len(events') :
             /\ \E q \in req \ req' : q.pc = "saved" /\ q.id = events'[k].id
             /\ events'[k].id \in 1..Len(alerts)
             /\ alerts[events'[k].id].status = events'[k].status
       /\ (Len(log') > Len(log) /\ ~\E q \in req \ req' : q.pc = "saved") =>
             events' = events]_vars

----------------------------------------------------------------------------
(* Properties of assignment, messages and read markers *)

\* the welcome messages that assign calls have appended to a conversation
AssignWelcomesOf(id) ==
    {k \in MessagesOf(id) :
        /\ msgs[k].senderId # SYSTEM_ADMIN
        /\ msgs[k].text.body = AssignWelcomeText("", "").body}

\* the answered assign calls that found the conversation, as log positions
AssignsOf(id) ==
    {k \in 1..Len(mlog) :
        mlog[k].op = "assign" /\ mlog[k].id = id /\ mlog[k].res.code = 200}

FirstOf(S) == CHOOSE k \in S : \A j \in S : k <= j

\* C23: over any interleaving of assign calls on a conversation, the
\* assignment welcome message is appended at most once, and once the calls
\* have all been answered it has been appended exactly once and the assignee
\* recorded is the operator of the first assign call answered.
AssignedOnceByFirst ==
    \A id \in 1..Len(convs) :
        /\ Cardinality(AssignWelcomesOf(id)) <= 1
        /\ (mreq = {} /\ AssignsOf(id) # {}) =>
              /\ Cardinality(AssignWelcomesOf(id)) = 1
              /\ convs[id].adminId = mlog[FirstOf(AssignsOf(id))].adminId

\* the preview the specification gives a message: the first 100 characters
\* of the request's text, or the placeholder of the media type
ExpectedPreview(body) ==
    IF MessageTypeOf(body) = "text"
      THEN Text(body.text.body, Min(body.text.len, 100))
    ELSE IF MessageTypeOf(body) = "image" THEN Text("Image", 8)
    ELSE IF MessageTypeOf(body) = "video" THEN Text("Video", 8)
    ELSE Text("Voice message", 16)

\* C24: a send that is answered 201 has persisted exactly one message (of
\* its conversation, appended while the request was in flight and nothing
\* else stored or removed), and its last step sets the conversation preview
\* to the first 100 characters of the text or to the placeholder of the
\* media type, adds exactly 1 to the unread counter of the side opposite to
\* the sender and leaves the sender's own counter as it was.
SendEffect ==
    [][\A q \in mreq :
          q.op = "send" =>
             /\ (q.pc = "loaded" /\ q \notin mreq' /\ Len(mlog') = Len(mlog)) =>
                   /\ Len(msgs') = Len(msgs) + 1
                   /\ SubSeq(msgs', 1, Len(msgs)) = msgs
                   /\ msgs'[Len(msgs')].conversationId = q.id
                   /\ convs' = convs
             /\ (q.pc \in {"stored", "updated"} /\ q \notin mreq') =>
                   /\ msgs' = msgs /\ convs' = convs /\ mlog' = mlog
             /\ (q.pc = "updating" /\ q \notin mreq') =>
                   /\ msgs' = msgs /\ mlog' = mlog
                   /\ q.msg = Len(msgs)
                   /\ convs'[q.id].lastMessage = ExpectedPreview(q.body)
                   /\ IF q.body.senderType = "user"
                        THEN /\ convs'[q.id].unreadCountAdmin =
                                   convs[q.id].unreadCountAdmin + 1
                             /\ convs'[q.id].unreadCountUser =
                                   convs[q.id].unreadCountUser
                        ELSE /\ convs'[q.id].unreadCountUser =
                                   convs[q.id].unreadCountUser + 1
                             /\ convs'[q.id].unreadCountAdmin =
                                   convs[q.id].unreadCountAdmin
                   /\ \A i \in 1..Len(convs) : i # q.id => convs'[i] = convs[i]
             /\ (q.pc = "populated" /\ q \notin mreq') =>
                   /\ Len(mlog') = Len(mlog) + 1
                   /\ mlog'[Len(mlog')].res.code = 201
                   /\ mlog'[Len(mlog')].res.msg = msgs[q.msg]
                   /\ msgs' = msgs /\ convs' = convs]_vars

\* a text longer than the preview has been sent by the owner and answered 201:
\* the preview holds its first 100 characters and the operator side has one
\* unread message
SendEffectWitness ==
    /\ mreq = {}
    /\ mlog # <<>>
    /\ LET c == mlog[Len(mlog)] IN
          /\ c.op = "send" /\ c.res.code = 201
          /\ c.body.senderType = "user" /\ c.body.text.len > 100
          /\ convs[c.id].lastMessage.len = 100
          /\ convs[c.id].unreadCountAdmin = 1
          /\ msgs[Len(msgs)] = c.res.msg

SenderModelOf(type) == IF type = "user" THEN "User" ELSE "Admin"

\* C25: a message that a send stores carries the id and the role of the
\* authenticated caller of that send, and a send whose body names a sender
\* type other than the caller's role is never answered 201 and stores no
\* message, whatever else the request body supplies.
SenderIsCaller ==
    /\ [](\A k \in 1..Len(mlog) :
             (mlog[k].op = "send" /\ mlog[k].body.senderType # mlog[k].caller.type)
                => mlog[k].res.code \in {400, 401, 404})
    /\ [][/\ msgs' # msgs =>
                \E q \in mreq \ mreq' :
                   /\ q.op = "send" /\ q.pc = "loaded"
                   /\ q.body.senderType = q.caller.type
                   /\ msgs' = Append(msgs, msgs'[Len(msgs')])
                   /\ msgs'[Len(msgs')].senderId = q.caller.id
                   /\ msgs'[Len(msgs')].senderType = q.caller.type
                   /\ msgs'[Len(msgs')].senderModel = SenderModelOf(q.caller.type)
          /\ \A q \in mreq' :
                q.pc # "loaded" => q.body.senderType = q.caller.type]_vars

\* operator 11 has sent an image under the role admin and it is stored with
\* sender 11
SenderIsCallerWitness ==
    /\ Len(msgs) = 2
    /\ msgs[2].senderId = 11 /\ msgs[2].senderType = "admin"
    /\ msgs[2].messageType = "image"
    /\ \E q \in mreq : q.pc = "stored" /\ q.caller = Caller("admin", 11) /\ q.msg = 2

SendCalls == {k \in 1..Len(mlog) : mlog[k].op = "send"}

\* the request bodies that the specification rejects as invalid input
InvalidSend(body) ==
    \/ body.senderType \notin {"user", "admin"}
    \/ MessageTypeOf(body) \notin {"text", "image", "video", "audio"}
    \/ MessageTypeOf(body) = "text" /\ body.text.len = 0
    \/ MessageTypeOf(body) # "text" /\ ~body.media

\* C26: a send is answered 400 when its sender type or message type is not
\* an allowed one, when it is a text message without text, or a media
\* message without media data, and 404 when its body is valid and names a
\* conversation that does not exist; a send that is not answered 201 has
\* stored no message and has left every conversation as it was.
SendRejections ==
    /\ [](\A k \in SendCalls :
             /\ InvalidSend(mlog[k].body) => mlog[k].res.code = 400
             /\ (~InvalidSend(mlog[k].body) /\ mlog[k].id # NoId
                    /\ mlog[k].id \notin 1..Len(convs)) => mlog[k].res.code = 404)
    /\ [](Len(msgs) = 1 + Cardinality({k \in SendCalls : mlog[k].res.code = 201})
                        + Cardinality({q \in mreq : q.pc # "loaded"}))
    /\ [][(Len(mlog') > Len(mlog) /\ mlog'[Len(mlog')].res.code # 201) =>
             (msgs' = msgs /\ convs' = convs)]_vars

\* an image message without media data has been answered 400, and the store
\* is the one the request found
SendRejectionsWitness ==
    /\ mreq = {}
    /\ mlog # <<>>
    /\ LET c == mlog[Len(mlog)] IN
          /\ c.op = "send" /\ c.res.code = 400
          /\ c.body.senderType = "user" /\ c.body.messageType = "image"
          /\ ~c.body.media /\ c.id = 1
    /\ Len(msgs) = 1
    /\ convs = <<ThreadConv>>

\* an event of that name has been published to that room
Published(name, room) ==
    \E i \in 1..Len(events) : events[i].name = name /\ events[i].room = room

\* C27: for every send answered 201 a message-sent event has been published
\* to a room of the conversation's owner (the room of the owner's id or of
\* the owner's username) and, when the conversation has an assignee, to the
\* room of that operator's id.
SendPublishes ==
    \A k \in SendCalls :
        mlog[k].res.code = 201 =>
            LET c == convs[mlog[k].id] IN
            /\ \/ Published("message-sent", IdRoom(c.userId))
               \/ \E u \in Users : /\ UserRecord(u).id = c.userId
                                   /\ Published("message-sent", UserRoom(u))
            /\ c.adminId # NoId => Published("message-sent", IdRoom(c.adminId))

\* C28: a markRead that has found its conversation sets the reader's own
\* unread counter to 0 with its last step and leaves the other side's
\* counter, and every other conversation, as they were, for reader user and
\* reader admin; when the call before it on the conversation was a markRead
\* of the same reader, it leaves the conversation and its messages exactly as
\* they were.
MarkReadEffect ==
    [][\A q \in mreq :
          q.op = "read" =>
             /\ (q.pc = "found" /\ q \notin mreq') =>
                   /\ convs' = convs /\ mlog' = mlog
                   /\ \A k \in 1..Len(msgs) :
                         msgs'[k] = msgs[k] \/ msgs'[k] = [msgs[k] EXCEPT !.isRead = TRUE]
                   /\ Len(msgs') = Len(msgs)
             /\ (q.pc = "marked" /\ q \notin mreq') =>
                   /\ msgs' = msgs /\ mlog' = mlog
                   /\ IF q.body.senderType = "user"
                        THEN /\ convs'[q.id].unreadCountUser = 0
                             /\ convs'[q.id].unreadCountAdmin =
                                   convs[q.id].unreadCountAdmin
                        ELSE /\ convs'[q.id].unreadCountAdmin = 0
                             /\ convs'[q.id].unreadCountUser =
                                   convs[q.id].unreadCountUser
                   /\ \A i \in 1..Len(convs) : i # q.id => convs'[i] = convs[i]
             /\ (q.pc = "zeroed" /\ q \notin mreq') =>
                   /\ Len(mlog') = Len(mlog) + 1
                   /\ mlog'[Len(mlog')].res.code = 200
                   /\ msgs' = msgs /\ convs' = convs
             /\ (/\ mlog # <<>>
                 /\ mlog[Len(mlog)].op = "read"
                 /\ mlog[Len(mlog)].res.code = 200
                 /\ mlog[Len(mlog)].id = q.id
                 /\ mlog[Len(mlog)].body.senderType = q.body.senderType) =>
                   (convs' = convs /\ msgs' = msgs)]_vars

\* the owner has sent a message, the operator has marked the conversation
\* read and then marked it read again: the operator side has no unread
\* message and the owner still has the welcome message unread
MarkReadEffectWitness ==
    /\ mreq = {}
    /\ Len(mlog) >= 4
    /\ mlog[2].op = "send" /\ mlog[2].res.code = 201
    /\ mlog[2].body.senderType = "user"
    /\ mlog[3].op = "read" /\ mlog[3].res.code = 200
    /\ mlog[3].body.senderType = "admin"
    /\ mlog[4].op = "read" /\ mlog[4].res.code = 200
    /\ mlog[4].body.senderType = "admin"
    /\ convs[1].unreadCountAdmin = 0
    /\ convs[1].unreadCountUser = 1

\* C29: an archive call on an absent id changes no conversation and is
\* answered 404; on an existing id it leaves the conversation archived, and
\* every other conversation as it was, and is answered 200; and no step of
\* any getOrCreate, assign, send, markRead or archive call, in any
\* interleaving, changes the status of an archived conversation.
ArchiveIsTerminal ==
    [][/\ \A q \in mreq' \ mreq :
             q.op = "archive" =>
                IF q.id \in 1..Len(convs)
                  THEN /\ q.pc = "saved"
                       /\ convs'[q.id].status = CONVERSATION_ARCHIVED
                       /\ Len(convs') = Len(convs)
                       /\ \A i \in 1..Len(convs) : i # q.id => convs'[i] = convs[i]
                  ELSE q.pc = "missing" /\ convs' = convs
       /\ \A q \in mreq \ mreq' :
             q.op = "archive" =>
                /\ Len(mlog') = Len(mlog) + 1
                /\ mlog'[Len(mlog')].op = "archive"
                /\ mlog'[Len(mlog')].res.code = (IF q.pc = "saved" THEN 200 ELSE 404)
                /\ q.pc = "saved" => convs[q.id].status = CONVERSATION_ARCHIVED
                /\ convs' = convs
       /\ \A i \in 1..Len(convs) :
             convs[i].status = CONVERSATION_ARCHIVED =>
                convs'[i].status = CONVERSATION_ARCHIVED]_vars

\* conversation 1 was archived while an assign call that had loaded it
\* active was in flight; the assign has saved and been answered since, and
\* the conversation is archived
ArchiveIsTerminalWitness ==
    /\ mreq = {}
    /\ Len(mlog) >= 3
    /\ mlog[2].op = "archive" /\ mlog[2].res.code = 200
    /\ mlog[3].op = "assign" /\ mlog[3].res.code = 200
    /\ mlog[3].res.conv.status = CONVERSATION_ACTIVE
    /\ convs[1].adminId = mlog[3].adminId
    /\ convs[1].status = CONVERSATION_ARCHIVED



\* the unread messages of a conversation sent by one side
UnreadFrom(id, senderType) ==
    {k \in MessagesOf(id) : msgs[k].senderType = senderType /\ ~msgs[k].isRead}

\* C36: whenever no request on a conversation is in flight, after any
\* interleaving of send, assign, getOrCreate and markRead requests on it, its
\* unreadCountUser is the number of its unread messages sent by the admin
\* side and its unreadCountAdmin the number of its unread messages sent by
\* the user side.
UnreadCountsMatchMessages ==
    mreq = {} =>
        \A id \in 1..Len(convs) :
            /\ convs[id].unreadCountUser = Cardinality(UnreadFrom(id, "admin"))
            /\ convs[id].unreadCountAdmin = Cardinality(UnreadFrom(id, "user"))

----------------------------------------------------------------------------
(* Properties of the socket layer *)

\* C30: a socket whose handshake carried no token or a token that does not
\* verify is not connected, is in no room, and no join or join-admin request
\* it has sent has been run by a handler.
RejectedNeverJoins ==
    \A c \in 1..Len(conns) :
        conns[c].auth # "valid" =>
            /\ ~conns[c].connected
            /\ conns[c].rooms = {}
            /\ conns[c].handled = 0

\* a socket without token and a socket with a bad token have each sent a
\* join or join-admin request, and are in no room
RejectedNeverJoinsWitness ==
    \E c, d \in 1..Len(conns) :
        /\ conns[c].auth = "none" /\ conns[c].sent > 0 /\ conns[c].rooms = {}
        /\ conns[d].auth = "invalid" /\ conns[d].sent > 0 /\ conns[d].rooms = {}

\* C31: a socket authenticated as an owner is in no room but the room of its
\* own username and the room of its own id; a join request for the username
\* room or the id room of another owner leaves its rooms as they were, and
\* the same request of a socket authenticated as an operator puts that
\* socket in the room.
OwnerInOwnRoomsOnly ==
    /\ [](\A c \in 1..Len(conns) :
             conns[c].tokenType = "user" =>
                conns[c].rooms \subseteq {UserRoom(conns[c].username),
                                          IdRoom(conns[c].userId)})
    /\ [][\A c \in 1..Len(conns) :
             \A roomId \in {UserRoom("bob"), IdRoom(2)} :
                Join(c, roomId) =>
                   IF conns[c].tokenType = "admin"
                     THEN roomId \in conns'[c].rooms
                     ELSE conns'[c].rooms = conns[c].rooms]_vars

\* alice's socket has asked for her own username room and for bob's and is in
\* her own only, and an operator's socket is in bob's username room
OwnerInOwnRoomsOnlyWitness ==
    \E c, d \in 1..Len(conns) :
        /\ conns[c].tokenType = "user" /\ conns[c].username = "alice"
        /\ {UserRoom("alice"), UserRoom("bob")} \subseteq conns[c].asked
        /\ conns[c].rooms = {UserRoom("alice")}
        /\ conns[d].tokenType = "admin"
        /\ UserRoom("bob") \in conns[d].rooms

\* C32: every socket in the admin room is authenticated as an operator, and
\* no join-admin or join request of a socket that is not changes whether it
\* is in the admin room.
AdminRoomOperatorsOnly ==
    /\ [](\A c \in 1..Len(conns) :
             ADMIN_ROOM \in conns[c].rooms =>
                (conns[c].connected /\ conns[c].tokenType = "admin"))
    /\ [][\A c \in 1..Len(conns) :
             (conns[c].tokenType # "admin" /\ conns'[c].sent > conns[c].sent) =>
                ADMIN_ROOM \notin conns'[c].rooms]_vars

\* an operator's socket is in the admin room, and an owner's socket that has
\* sent a join request for the admin room and a join-admin request is not
AdminRoomOperatorsOnlyWitness ==
    \E c, d \in 1..Len(conns) :
        /\ conns[c].tokenType = "admin" /\ ADMIN_ROOM \in conns[c].rooms
        /\ conns[d].tokenType = "user" /\ ADMIN_ROOM \in conns[d].asked
        /\ conns[d].sent > Cardinality(conns[d].asked)
        /\ ADMIN_ROOM \notin conns[d].rooms

\* the ids of the operator accounts
OperatorIds == {11, 12}

\* C33: a socket authenticated as an operator is never in the id room of
\* another operator, whatever join and join-admin requests it has sent.
OperatorInOwnRoomOnly ==
    \A c \in 1..Len(conns) :
        conns[c].tokenType = "admin" =>
            \A a \in OperatorIds \ {conns[c].userId} : IdRoom(a) \notin conns[c].rooms

----------------------------------------------------------------------------
(* Properties of dispatch *)

\* C34: in every step, what a socket is sent is exactly the events that the
\* step publishes to rooms the socket is a member of when the step is taken:
\* an event published to a room without members is sent to nobody, a step
\* that publishes nothing (a connection, a join) sends nothing, and so a
\* socket is never sent an event published before it joined the room.
DispatchKeepsNoQueue ==
    [][/\ \A c \in 1..Len(conns) :
             conns'[c].inbox =
                conns[c].inbox \o
                   SelectSeq(SubSeq(events', Len(events) + 1, Len(events')),
                             LAMBDA e : e.room \in conns[c].rooms)
       /\ \A c \in (Len(conns) + 1)..Len(conns') : conns'[c].inbox = <<>>]_vars

\* an event was published to the admin room before an operator's socket
\* joined it and another one after: the socket has been sent the second only
DispatchKeepsNoQueueWitness ==
    \E c \in 1..Len(conns) :
        /\ ADMIN_ROOM \in conns[c].rooms
        /\ Len(events) >= 2
        /\ events[1].room = ADMIN_ROOM
        /\ events[Len(events)].room = ADMIN_ROOM
        /\ conns[c].inbox = <<events[Len(events)]>>

\* C35: the step of a raise, cancel or resolve request that publishes and
\* answers leaves the store as the request's save left it and answers with
\* the code and the alert that the request and the store determine, the same
\* with and without a dispatcher and for every membership of the rooms; and
\* no step that publishes, delivers or changes a membership writes the store.
OutcomeIndependentOfDispatch ==
    [][/\ \A q \in req :
             (q.pc = "saved" /\ q \notin req') =>
                /\ alerts' = alerts
                /\ alerts[q.id] = q.doc
                /\ Len(log') = Len(log) + 1
                /\ LET res == log'[Len(log')].res IN
                      /\ res.code = IF q.op = "send" /\ q.snap = NoDoc
                                      THEN 201 ELSE 200
                      /\ res.data.id = q.id
                      /\ res.data.status = alerts[q.id].status
                      /\ q.op \in {"send", "resolve"} =>
                            res.data.username = alerts[q.id].username
                      /\ q.op = "send" =>
                            /\ res.data.latitude = alerts[q.id].latitude
                            /\ res.data.longitude = alerts[q.id].longitude
                      /\ q.op = "cancel" => res.data.at = alerts[q.id].cancelledAt
                      /\ q.op = "resolve" => res.data.at = alerts[q.id].resolvedAt
       /\ (events' # events \/ conns' # conns) => alerts' = alerts]_vars

\* without a dispatcher, and with an operator's socket in the admin room, a
\* raise and a cancel have been answered 201 and 200, the alert is stored
\* cancelled and nothing has been published
OutcomeIndependentOfDispatchWitness ==
    /\ ~io
    /\ req = {}
    /\ Len(log) = 2
    /\ log[1].op = "send" /\ log[1].res.code = 201
    /\ log[2].op = "cancel" /\ log[2].res.code = 200
    /\ alerts[1].status = STATUS_CANCELLED
    /\ events = <<>>
    /\ \E c \in 1..Len(conns) : ADMIN_ROOM \in conns[c].rooms

----------------------------------------------------------------------------
(* The handlers of the Admin collection: forgotAdminPassword and
   resetAdminPassword, and registerAdmin, updateAdminProfile,
   changeAdminPassword and deleteAdminAccount *)

RESET_CODE_EXPIRY_MS == 15 * 60 * 1000
RESET_CODE_LENGTH == 6
MIN_PASSWORD_LENGTH == 8
MAX_EMAIL_RETRIES == 3

\* EMAIL_REGEX.test(email): one "@" with something other than blanks before
\* it, and after it a "." that has something on both sides; no blank anywhere
isValidEmail(email) ==
    /\ \A i \in 1..Len(email) : email[i] # " "
    /\ \E i \in 2..Len(email) :
         /\ email[i] = "@"
         /\ \A j \in 1..Len(email) : email[j] = "@" => j = i
         /\ \E k \in (i + 2)..(Len(email) - 1) : email[k] = "."

\* String.prototype.toLowerCase, word by word
LowerCase(word) ==
    CASE word = "Op1" -> "op1"
      [] word = "Op3" -> "op3"
      [] word = "Resq" -> "resq"
      [] OTHER -> word

\* email.toLowerCase()
LowerEmail(email) == [i \in 1..Len(email) |-> LowerCase(email[i])]

\* String.prototype.trim: the text without its leading and trailing blanks
RECURSIVE TrimStart(_)
TrimStart(text) ==
    IF text # <<>> /\ Head(text) = " " THEN TrimStart(Tail(text)) ELSE text

RECURSIVE TrimEnd(_)
TrimEnd(text) ==
    IF text # <<>> /\ text[Len(text)] = " "
    THEN TrimEnd(SubSeq(text, 1, Len(text) - 1)) ELSE text

\* email.toLowerCase().trim(), which is also what the schema's lowercase and
\* trim make of an email that is stored
NormalEmail(email) == TrimEnd(TrimStart(LowerEmail(email)))

\* fullname.trim() of the names the requests carry
TrimName(name) ==
    CASE name = " Op Won " -> "Op Won"
      [] OTHER -> name

Digits == {"0", "1", "2", "3", "4", "5", "6", "7", "8", "9"}

\* isValidResetCode(resetCode, expectedLength)
isValidResetCode(resetCode, expectedLength) ==
    /\ Len(resetCode) = expectedLength
    /\ \A i \in 1..Len(resetCode) : resetCode[i] \in Digits

NoResetCode == <<>>

\* what a request body carries besides email, resetCode and newPassword
AccountBody(fullname, username, oldPassword, role) ==
    [fullname |-> fullname, username |-> username, oldPassword |-> oldPassword,
     role |-> role]
NoAccountBody == AccountBody("", "", NoPassword, "")

\* a request in flight: n is the clock at its arrival, saved the clock when
\* the store executed its save of a reset token or of a password, caller is
\* req.admin, error the message of the error the email service threw
PasswordRequest(op, n, pc, id, snap, doc, email, resetCode, newPassword) ==
    [op |-> op, n |-> n, pc |-> pc, id |-> id, snap |-> snap, doc |-> doc,
     saved |-> NoDate, email |-> email, resetCode |-> resetCode,
     newPassword |-> newPassword, caller |-> NoAdminDoc, error |-> <<>>,
     body |-> NoAccountBody]

\* a request answered
PasswordCall(q, res) ==
    [op |-> q.op, n |-> q.n, id |-> q.id, saved |-> q.saved, email |-> q.email,
     resetCode |-> q.resetCode, newPassword |-> q.newPassword,
     caller |-> q.caller.id, body |-> q.body, res |-> res]

\* admin.save() of a loaded Admin document: only the paths the handler
\* changed since the document was loaded or last saved are written; the hash
\* of a password is salted, so an assigned password is always a changed path
AdminSaveDelta(snap, doc, cur) ==
    [cur EXCEPT
       !.password = SetPath(snap.password, doc.password, cur.password),
       !.resetPasswordToken = SetPath(snap.resetPasswordToken,
                                      doc.resetPasswordToken,
                                      cur.resetPasswordToken),
       !.resetPasswordExpires = SetPath(snap.resetPasswordExpires,
                                        doc.resetPasswordExpires,
                                        cur.resetPasswordExpires)]

\* the Admin collection after admin.save() of the document a request loaded;
\* the save of a document that is no longer stored throws
\* DocumentNotFoundError and writes nothing
SavedAdmins(q, doc) ==
    IF AdminAt(q.id) = 0 THEN admins
    ELSE [admins EXCEPT ![AdminAt(q.id)] = AdminSaveDelta(q.snap, doc, @)]

\* the fields of an account that an answer carries
AdminView(doc) ==
    [id |-> doc.id, fullname |-> doc.fullname, email |-> doc.email,
     username |-> doc.username, role |-> doc.role]

\* sendOk and sendCreated with the account in the data
AdminResponse(code, message, admin) ==
    [code |-> code, message |-> message, admin |-> AdminView(admin)]

\* sendOk, sendBadRequest, sendUnauthorized, sendForbidden, sendNotFound and
\* sendServerError with a message and no data
PasswordResponse(code, message) == AdminResponse(code, message, NoAdminDoc)

\* a request answered before it has looked an account up
PasswordAnswered(op, email, resetCode, newPassword, res) ==
    /\ alog' = Append(alog,
                 PasswordCall(PasswordRequest(op, now, "answered", NoId, NoAdminDoc,
                                  NoAdminDoc, email, resetCode, newPassword), res))
    /\ areq' = areq

\* a request in flight answered
PasswordAnswer(q, res) ==
    /\ alog' = Append(alog, PasswordCall(q, res))
    /\ areq' = areq \ {q}

\* a request in flight moves on
PasswordMove(q, r) ==
    /\ areq' = (areq \ {q}) \cup {r}
    /\ alog' = alog

\* the first of the accounts a query matches, in the order of insertion, or
\* none
FirstAdmin(found) ==
    IF found = {} THEN NoAdminDoc
    ELSE admins[CHOOSE i \in found : \A j \in found : i <= j]

\* the request that has looked an account up
PasswordLookedUp(op, admin, email, resetCode, newPassword) ==
    PasswordRequest(op, now, "found", admin.id, admin, admin, email, resetCode,
                    newPassword)

\* Admin.findOne({ email: email.toLowerCase().trim() })
ForgotLookup(email) ==
    {i \in 1..Len(admins) : admins[i].email = NormalEmail(email)}

\* forgotAdminPassword up to Admin.findOne, and the query at the store
ForgotAdminPassword(email) ==
    /\ now' = now + 1
    /\ admins' = admins
    /\ IF Len(email) = 0
       THEN PasswordAnswered("forgot", email, NoResetCode, NoPassword,
                PasswordResponse(400, "Please provide an email address"))
       ELSE IF ~isValidEmail(email)
       THEN PasswordAnswered("forgot", email, NoResetCode, NoPassword,
                PasswordResponse(400, "Please provide a valid email address"))
       ELSE /\ areq' = areq \cup
                   {PasswordLookedUp("forgot", FirstAdmin(ForgotLookup(email)),
                                     email, NoResetCode, NoPassword)}
            /\ alog' = alog
    /\ UNCHANGED <<alertVars, threadVars, events, conns, io>>

\* forgotAdminPassword after Admin.findOne: the answer when no account has
\* the email, else generateResetCode, hashResetCode and the assignments,
\* the expiry from Date.now(); resetCode is what Math.random yields
ForgotEdit(q, resetCode) ==
    /\ q \in areq
    /\ q.op = "forgot" /\ q.pc = "found"
    /\ IF q.id = NoId
       THEN PasswordAnswer(q, PasswordResponse(200,
                "If an account with that email exists, a reset code has been sent"))
       ELSE PasswordMove(q,
                [q EXCEPT !.pc = "saving", !.resetCode = resetCode,
                          !.doc = [q.doc EXCEPT
                             !.resetPasswordToken = hashResetCode(resetCode),
                             !.resetPasswordExpires = now + RESET_CODE_EXPIRY_MS]])
    /\ UNCHANGED <<admins, now>>
    /\ UNCHANGED <<alertVars, threadVars, events, conns, io>>

\* the first admin.save() of forgotAdminPassword at the store, after which
\* the handler calls sendPasswordResetEmail; a save that throws takes the
\* handler to its outer catch
ForgotSave(q) ==
    /\ q \in areq
    /\ q.op = "forgot" /\ q.pc = "saving"
    /\ admins' = SavedAdmins(q, q.doc)
    /\ PasswordMove(q,
           IF AdminAt(q.id) = 0 THEN [q EXCEPT !.pc = "failed"]
           ELSE [q EXCEPT !.pc = "mailing", !.snap = q.doc, !.saved = now])
    /\ UNCHANGED now
    /\ UNCHANGED <<alertVars, threadVars, events, conns, io>>

\* what one attempt to send through SendGrid comes to: the email accepted, or
\* an error with its message (the sequence of its words) and its code
MailSent == [sent |-> TRUE, message |-> <<>>, code |-> ""]
MailError(message, code) == [sent |-> FALSE, message |-> message, code |-> code]

\* error.message.includes(word)
Includes(message, word) == \E i \in 1..Len(message) : message[i] = word

\* sendPasswordResetEmailWithRetry(..., retryCount, maxRetries): attempts are
\* the outcomes of initializeSendGrid and sgMail.send call by call, the last
\* one standing for every later call; the waits between the retries are short
\* of the clock's step
RECURSIVE sendPasswordResetEmailWithRetry(_, _, _)
sendPasswordResetEmailWithRetry(attempts, retryCount, maxRetries) ==
    LET attempt == IF retryCount + 1 <= Len(attempts) THEN attempts[retryCount + 1]
                   ELSE attempts[Len(attempts)]
        thrown(message) == [success |-> FALSE, message |-> message]
    IN
    IF attempt.sent THEN [success |-> TRUE, message |-> <<>>]
    ELSE IF Includes(attempt.message, "Invalid email")
    THEN thrown(<<"Invalid email address format.">>)
    ELSE IF Includes(attempt.message, "401") \/ Includes(attempt.message, "Unauthorized")
    THEN thrown(<<"Email service configuration error. Please contact support.">>)
    ELSE IF Includes(attempt.message, "429")
              \/ Includes(attempt.message, "Too Many Requests")
    THEN thrown(<<"Too many email attempts. Please try again later.">>)
    ELSE IF /\ \/ Includes(attempt.message, "timeout")
               \/ Includes(attempt.message, "Connection")
               \/ Includes(attempt.message, "ECONNREFUSED")
               \/ Includes(attempt.message, "EHOSTUNREACH")
               \/ attempt.code = "ECONNABORTED"
            /\ retryCount < maxRetries
    THEN sendPasswordResetEmailWithRetry(attempts, retryCount + 1, maxRetries)
    ELSE IF retryCount >= maxRetries
    THEN thrown(<<"Email service unavailable after ", ToString(maxRetries),
                  " retries. Please try again later or contact support.">>)
    ELSE thrown(<<"Failed to send email: ">> \o attempt.message)

\* sendPasswordResetEmail(userEmail, fullname, resetCode, userType)
sendPasswordResetEmail(attempts) ==
    sendPasswordResetEmailWithRetry(attempts, 0, MAX_EMAIL_RETRIES)

\* (variant: the handler without the rollback, as the older copy of the
\* controller, lines 1774-1845)
RolledBack_keepsToken(doc) == doc

\* the rollback of forgotAdminPassword: token and expiry set to undefined
RolledBack(doc) ==
    [doc EXCEPT !.resetPasswordToken = NoResetToken,
                !.resetPasswordExpires = NoResetExpires]

\* sendPasswordResetEmail has delivered: the answer
ForgotMail(q, attempts) ==
    /\ q \in areq
    /\ q.op = "forgot" /\ q.pc = "mailing"
    /\ sendPasswordResetEmail(attempts).success
    /\ PasswordAnswer(q, PasswordResponse(200,
           "Password reset code has been sent to your email"))
    /\ UNCHANGED <<admins, now>>
    /\ UNCHANGED <<alertVars, threadVars, events, conns, io>>

\* sendPasswordResetEmail has thrown: the assignments of the rollback and the
\* second admin.save() of forgotAdminPassword at the store; a save that
\* throws takes the handler from its inner catch to its outer catch
ForgotRollback(q, attempts) ==
    LET doc == RolledBack(q.doc)
        sending == sendPasswordResetEmail(attempts)
    IN
    /\ q \in areq
    /\ q.op = "forgot" /\ q.pc = "mailing"
    /\ ~sending.success
    /\ admins' = SavedAdmins(q, doc)
    /\ PasswordMove(q,
           IF AdminAt(q.id) = 0 THEN [q EXCEPT !.pc = "failed"]
           ELSE [q EXCEPT !.pc = "rolledback", !.snap = doc, !.doc = doc,
                          !.error = sending.message])
    /\ UNCHANGED now
    /\ UNCHANGED <<alertVars, threadVars, events, conns, io>>

\* the answer of forgotAdminPassword after the rollback, which carries the
\* message of the error the email service threw, and the answer of its outer
\* catch
ForgotRespond(q) ==
    /\ q \in areq
    /\ q.op = "forgot" /\ q.pc \in {"rolledback", "failed"}
    /\ PasswordAnswer(q,
           IF q.pc = "rolledback" THEN PasswordResponse(500, q.error)
           ELSE PasswordResponse(500,
                    "An unexpected error occurred. Please try again later."))
    /\ UNCHANGED <<admins, now>>
    /\ UNCHANGED <<alertVars, threadVars, events, conns, io>>

\* (variant: a look-up that does not compare the expiry with the clock)
ResetLookup_anyExpiry(email, resetCode) ==
    {i \in 1..Len(admins) :
        /\ admins[i].email = NormalEmail(email)
        /\ admins[i].resetPasswordToken = hashResetCode(resetCode)}

\* Admin.findOne({ email, resetPasswordToken, resetPasswordExpires: { $gt: Date.now() } })
ResetLookup(email, resetCode) ==
    {i \in 1..Len(admins) :
        /\ admins[i].email = NormalEmail(email)
        /\ admins[i].resetPasswordToken = hashResetCode(resetCode)
        /\ admins[i].resetPasswordExpires > now}

\* resetAdminPassword up to Admin.findOne, and the query at the store;
\* resetCode.trim() removes nothing from a code that isValidResetCode has
\* accepted
ResetAdminPassword(email, resetCode, newPassword) ==
    /\ now' = now + 1
    /\ admins' = admins
    /\ IF Len(email) = 0 \/ Len(resetCode) = 0 \/ newPassword.len = 0
       THEN PasswordAnswered("reset", email, resetCode, newPassword,
                PasswordResponse(400, "Please provide all required fields"))
       ELSE IF ~isValidResetCode(resetCode, RESET_CODE_LENGTH)
       THEN PasswordAnswered("reset", email, resetCode, newPassword,
                PasswordResponse(400, "Reset code must be 6 digits"))
       ELSE IF newPassword.len < MIN_PASSWORD_LENGTH
       THEN PasswordAnswered("reset", email, resetCode, newPassword,
                PasswordResponse(400, "Password must be at least 8 characters"))
       ELSE /\ areq' = areq \cup
                   {PasswordLookedUp("reset",
                        FirstAdmin(ResetLookup(email, resetCode)),
                        email, resetCode, newPassword)}
            /\ alog' = alog
    /\ UNCHANGED <<alertVars, threadVars, events, conns, io>>

\* resetAdminPassword after Admin.findOne found no account: the answer
ResetRejected(q) ==
    /\ q \in areq
    /\ q.op = "reset" /\ q.pc = "found" /\ q.id = NoId
    /\ PasswordAnswer(q, PasswordResponse(400,
           "Invalid or expired reset code. Please request a new one."))
    /\ UNCHANGED <<admins, now>>
    /\ UNCHANGED <<alertVars, threadVars, events, conns, io>>

\* resetAdminPassword after Admin.findOne found the account: hashPassword,
\* the assignments, and admin.save() at the store; a save that throws takes
\* the handler to its catch
ResetSave(q) ==
    LET doc == [q.doc EXCEPT
                  !.password = hashPassword(q.newPassword, q.n),
                  !.resetPasswordToken = NoResetToken,
                  !.resetPasswordExpires = NoResetExpires]
    IN
    /\ q \in areq
    /\ q.op = "reset" /\ q.pc = "found" /\ q.id # NoId
    /\ admins' = SavedAdmins(q, doc)
    /\ PasswordMove(q,
           IF AdminAt(q.id) = 0 THEN [q EXCEPT !.pc = "failed"]
           ELSE [q EXCEPT !.pc = "saved", !.snap = doc, !.doc = doc,
                          !.saved = now])
    /\ UNCHANGED now
    /\ UNCHANGED <<alertVars, threadVars, events, conns, io>>

\* the answer of resetAdminPassword after the save, and the answer of its
\* catch
ResetRespond(q) ==
    /\ q \in areq
    /\ q.op = "reset" /\ q.pc \in {"saved", "failed"}
    /\ PasswordAnswer(q,
           IF q.pc = "saved"
           THEN PasswordResponse(200,
                    "Password has been reset successfully. You can now login with your new password.")
           ELSE PasswordResponse(500, "Error resetting password. Please try again."))
    /\ UNCHANGED <<admins, now>>
    /\ UNCHANGED <<alertVars, threadVars, events, conns, io>>

\* Admin.findOne({ $or: [{ email: email.toLowerCase() }, { username }] })
RegisterLookup(email, username) ==
    {i \in 1..Len(admins) :
        admins[i].email = LowerEmail(email) \/ admins[i].username = username}

\* registerAdmin, which the router serves without a middleware, so that
\* req.admin is undefined: up to Admin.findOne, and the query at the store
RegisterAdmin(fullname, email, username, password, role) ==
    LET body == AccountBody(fullname, username, NoPassword, role)
        answered(res) ==
            /\ alog' = Append(alog,
                   PasswordCall([PasswordRequest("register", now, "answered", NoId,
                                     NoAdminDoc, NoAdminDoc, email, NoResetCode,
                                     password) EXCEPT !.body = body], res))
            /\ areq' = areq
    IN
    /\ now' = now + 1
    /\ admins' = admins
    /\ IF fullname = "" \/ Len(email) = 0 \/ username = "" \/ password.len = 0
       THEN answered(PasswordResponse(400, "Please provide all required fields"))
       ELSE IF role = ADMIN_ROLE_SUPER_ADMIN
       THEN answered(PasswordResponse(403, "Cannot self-register as super admin"))
       ELSE /\ areq' = areq \cup
                   {[PasswordLookedUp("register",
                         FirstAdmin(RegisterLookup(email, username)),
                         email, NoResetCode, password) EXCEPT !.body = body]}
            /\ alog' = alog
    /\ UNCHANGED <<alertVars, threadVars, events, conns, io>>

\* registerAdmin after Admin.findOne found an account: the answer
RegisterRejected(q) ==
    /\ q \in areq
    /\ q.op = "register" /\ q.pc = "found" /\ q.id # NoId
    /\ PasswordAnswer(q, PasswordResponse(400,
           IF q.snap.email = LowerEmail(q.email) THEN "Email already exists"
           ELSE "Username already exists"))
    /\ UNCHANGED <<admins, now>>
    /\ UNCHANGED <<alertVars, threadVars, events, conns, io>>

\* the _id that new Admin({...}) draws for the document of a request
NewAdminId(q) == 100 + q.n

\* registerAdmin after Admin.findOne found none: hashPassword, new
\* Admin({...}) and newAdmin.save() at the store; the save of an email or a
\* username that another account has throws and inserts nothing
RegisterSave(q) ==
    LET doc == AdminDoc(NewAdminId(q), q.body.username, q.body.fullname,
                        NormalEmail(q.email), hashPassword(q.newPassword, q.n),
                        IF q.body.role = "" THEN ADMIN_ROLE_ADMIN ELSE q.body.role)
    IN
    /\ q \in areq
    /\ q.op = "register" /\ q.pc = "found" /\ q.id = NoId
    /\ admins' = IF AdminDuplicate(doc, 0) THEN admins ELSE Append(admins, doc)
    /\ PasswordMove(q,
           IF AdminDuplicate(doc, 0) THEN [q EXCEPT !.pc = "failed"]
           ELSE [q EXCEPT !.pc = "saved", !.id = doc.id, !.snap = doc,
                          !.doc = doc])
    /\ UNCHANGED now
    /\ UNCHANGED <<alertVars, threadVars, events, conns, io>>

\* the answer of registerAdmin after the save, and the answer of its catch
RegisterRespond(q) ==
    /\ q \in areq
    /\ q.op = "register" /\ q.pc \in {"saved", "failed"}
    /\ PasswordAnswer(q,
           IF q.pc = "saved"
           THEN AdminResponse(201, "Admin registered successfully", q.doc)
           ELSE PasswordResponse(500, "Internal server error"))
    /\ UNCHANGED <<admins, now>>
    /\ UNCHANGED <<alertVars, threadVars, events, conns, io>>

\* protectAdmin for a caller with a valid token of an account: up to
\* Admin.findById(decoded.id).select('-password'), and the query at the
\* store; no handler of this model deactivates an account
ProtectAdmin(op, adminId, email, newPassword, body) ==
    /\ now' = now + 1
    /\ admins' = admins
    /\ areq' = areq \cup
          {[PasswordRequest(op, now, "authed", adminId, NoAdminDoc, NoAdminDoc,
                            email, NoResetCode, newPassword)
               EXCEPT !.caller = AdminById(adminId), !.body = body]}
    /\ alog' = alog
    /\ UNCHANGED <<alertVars, threadVars, events, conns, io>>

\* whether updateAdminProfile passes its checks of the body
ProfileBodyValid(q) == q.body.fullname # "" /\ Len(q.email) # 0 /\ isValidEmail(q.email)

\* whether updateAdminProfile asks the store for another account with the
\* email
ProfileEmailChanged(q) == LowerEmail(q.email) # LowerEmail(q.caller.email)

\* Admin.findOne({ email: email.toLowerCase(), _id: { $ne: adminId } })
ProfileLookup(email, adminId) ==
    {i \in 1..Len(admins) :
        admins[i].email = LowerEmail(email) /\ admins[i].id # adminId}

\* updateAdminProfile with an email other than req.admin's: Admin.findOne at
\* the store
ProfileFind(q) ==
    /\ q \in areq
    /\ q.op = "profile" /\ q.pc = "authed" /\ q.caller.id # NoId
    /\ ProfileBodyValid(q) /\ ProfileEmailChanged(q)
    /\ PasswordMove(q, [q EXCEPT !.pc = "found",
                          !.snap = FirstAdmin(ProfileLookup(q.email, q.id))])
    /\ UNCHANGED <<admins, now>>
    /\ UNCHANGED <<alertVars, threadVars, events, conns, io>>

\* updateAdminProfile after Admin.findOne found another account: the answer
ProfileRejected(q) ==
    /\ q \in areq
    /\ q.op = "profile" /\ q.pc = "found" /\ q.snap.id # NoId
    /\ PasswordAnswer(q, PasswordResponse(400, "Email already in use"))
    /\ UNCHANGED <<admins, now>>
    /\ UNCHANGED <<alertVars, threadVars, events, conns, io>>

\* Admin.findByIdAndUpdate(adminId, { fullname: fullname.trim(), email:
\* email.toLowerCase().trim(), ... }, { new: true, runValidators: true }) at
\* the store: nothing when the account is not stored, an error when another
\* account has the email
ProfileUpdate(q) ==
    LET cur == AdminById(q.id)
        doc == [cur EXCEPT !.fullname = TrimName(q.body.fullname),
                           !.email = NormalEmail(q.email)]
    IN
    /\ q \in areq
    /\ q.op = "profile" /\ q.caller.id # NoId /\ ProfileBodyValid(q)
    /\ \/ q.pc = "authed" /\ ~ProfileEmailChanged(q)
       \/ q.pc = "found" /\ q.snap.id = NoId
    /\ IF cur.id = NoId
       THEN /\ admins' = admins
            /\ PasswordMove(q, [q EXCEPT !.pc = "missing"])
       ELSE IF AdminDuplicate(doc, AdminAt(q.id))
       THEN /\ admins' = admins
            /\ PasswordMove(q, [q EXCEPT !.pc = "failed"])
       ELSE /\ admins' = [admins EXCEPT ![AdminAt(q.id)] = doc]
            /\ PasswordMove(q, [q EXCEPT !.pc = "saved", !.doc = doc])
    /\ UNCHANGED now
    /\ UNCHANGED <<alertVars, threadVars, events, conns, io>>

\* the answers of updateAdminProfile after findByIdAndUpdate, and the answer
\* of its catch
ProfileRespond(q) ==
    /\ q \in areq
    /\ q.op = "profile" /\ q.pc \in {"saved", "missing", "failed"}
    /\ PasswordAnswer(q,
           CASE q.pc = "saved" ->
                  AdminResponse(200, "Profile updated successfully", q.doc)
             [] q.pc = "missing" -> PasswordResponse(404, "Admin not found")
             [] q.pc = "failed" -> PasswordResponse(500, "Error updating profile"))
    /\ UNCHANGED <<admins, now>>
    /\ UNCHANGED <<alertVars, threadVars, events, conns, io>>

\* whether changeAdminPassword passes its checks of the body
ChangeBodyValid(q) ==
    /\ q.body.oldPassword.len # 0 /\ q.newPassword.len # 0
    /\ q.newPassword.len >= MIN_PASSWORD_LENGTH

\* the turn after Admin.findById of protectAdmin when it ends with an
\* answer: the 401 of protectAdmin when no account was found, and the answers
\* of updateAdminProfile and of changeAdminPassword to a body they refuse
AdminRefused(q) ==
    /\ q \in areq
    /\ q.pc = "authed"
    /\ \/ q.caller.id = NoId
       \/ q.op = "profile" /\ ~ProfileBodyValid(q)
       \/ q.op = "change" /\ ~ChangeBodyValid(q)
    /\ PasswordAnswer(q,
           IF q.caller.id = NoId THEN PasswordResponse(401, "Admin not found")
           ELSE IF q.op = "profile"
           THEN IF q.body.fullname = "" \/ Len(q.email) = 0
                THEN PasswordResponse(400, "Full name and email are required")
                ELSE PasswordResponse(400, "Please provide a valid email address")
           ELSE IF q.body.oldPassword.len = 0 \/ q.newPassword.len = 0
                THEN PasswordResponse(400, "Please provide both old and new password")
                ELSE PasswordResponse(400, "New password must be at least 8 characters"))
    /\ UNCHANGED <<admins, now>>
    /\ UNCHANGED <<alertVars, threadVars, events, conns, io>>

\* changeAdminPassword and deleteAdminAccount for the account protectAdmin
\* found: Admin.findById(adminId) at the store
AccountFind(q) ==
    /\ q \in areq
    /\ q.pc = "authed" /\ q.caller.id # NoId
    /\ \/ q.op = "change" /\ ChangeBodyValid(q)
       \/ q.op = "delete"
    /\ PasswordMove(q, [q EXCEPT !.pc = "found", !.snap = AdminById(q.id),
                                 !.doc = AdminById(q.id)])
    /\ UNCHANGED <<admins, now>>
    /\ UNCHANGED <<alertVars, threadVars, events, conns, io>>

\* the turn after Admin.findById of changeAdminPassword or of
\* deleteAdminAccount when it ends with an answer: the 404 when the account
\* is not stored, after comparePassword the 401 to an old password that is
\* not the account's, and the 403 for the account of a super admin
AccountRejected(q) ==
    /\ q \in areq
    /\ q.op \in {"change", "delete"} /\ q.pc = "found"
    /\ \/ q.snap.id = NoId
       \/ q.op = "change" /\ ~comparePassword(q.body.oldPassword, q.snap.password)
       \/ q.op = "delete" /\ q.snap.role = ADMIN_ROLE_SUPER_ADMIN
    /\ PasswordAnswer(q,
           IF q.op = "change"
           THEN IF q.snap.id = NoId THEN PasswordResponse(404, "Admin not found")
                ELSE PasswordResponse(401, "Current password is incorrect")
           ELSE IF q.snap.id = NoId
                THEN PasswordResponse(404, "Admin account not found")
                ELSE PasswordResponse(403,
                         "Super admin accounts cannot be deleted. Please contact system administrator."))
    /\ UNCHANGED <<admins, now>>
    /\ UNCHANGED <<alertVars, threadVars, events, conns, io>>

\* changeAdminPassword after comparePassword accepted the old password:
\* hashPassword, the assignment, and admin.save() at the store; a save that
\* throws takes the handler to its catch
ChangeSave(q) ==
    LET doc == [q.doc EXCEPT !.password = hashPassword(q.newPassword, q.n)] IN
    /\ q \in areq
    /\ q.op = "change" /\ q.pc = "found"
    /\ q.snap.id # NoId /\ comparePassword(q.body.oldPassword, q.snap.password)
    /\ admins' = SavedAdmins(q, doc)
    /\ PasswordMove(q,
           IF AdminAt(q.id) = 0 THEN [q EXCEPT !.pc = "failed"]
           ELSE [q EXCEPT !.pc = "saved", !.snap = doc, !.doc = doc,
                          !.saved = now])
    /\ UNCHANGED now
    /\ UNCHANGED <<alertVars, threadVars, events, conns, io>>

\* the answer of changeAdminPassword after the save, and the answer of its
\* catch
ChangeRespond(q) ==
    /\ q \in areq
    /\ q.op = "change" /\ q.pc \in {"saved", "failed"}
    /\ PasswordAnswer(q,
           IF q.pc = "saved" THEN PasswordResponse(200, "Password changed successfully")
           ELSE PasswordResponse(500, "Error changing password"))
    /\ UNCHANGED <<admins, now>>
    /\ UNCHANGED <<alertVars, threadVars, events, conns, io>>

\* Admin.findByIdAndDelete(adminId) at the store, which removes the document
\* if it is stored
DeleteExecute(q) ==
    /\ q \in areq
    /\ q.op = "delete" /\ q.pc = "found"
    /\ q.snap.id # NoId /\ q.snap.role # ADMIN_ROLE_SUPER_ADMIN
    /\ admins' = SelectSeq(admins, LAMBDA a : a.id # q.id)
    /\ PasswordMove(q, [q EXCEPT !.pc = "deleted"])
    /\ UNCHANGED now
    /\ UNCHANGED <<alertVars, threadVars, events, conns, io>>

\* the answer of deleteAdminAccount after findByIdAndDelete
DeleteRespond(q) ==
    /\ q \in areq
    /\ q.op = "delete" /\ q.pc = "deleted"
    /\ PasswordAnswer(q, PasswordResponse(200, "Account deleted successfully"))
    /\ UNCHANGED <<admins, now>>
    /\ UNCHANGED <<alertVars, threadVars, events, conns, io>>

\* time passing with no request arriving: the lifetime of a reset code, which
\* no request stays in flight for
ResetCodeLifetime ==
    /\ areq = {}
    /\ now' = now + RESET_CODE_EXPIRY_MS
    /\ UNCHANGED <<admins, areq, alog>>
    /\ UNCHANGED <<alertVars, threadVars, events, conns, io>>

MaxResetCalls == 3         \* requests of the Admin handlers in one behaviour
MaxResetWaits == 1         \* lifetimes of a reset code that pass in one behaviour
MaxResetOverlap == 2       \* requests of the Admin handlers in flight at once
MaxAccountCalls == 1       \* of them, requests other than forgot and reset

\* the emails asked about: the first account's in capitals, one without "@",
\* one that no account has
ForgotEmails ==
    {<<"Op1", "@", "resq", ".", "io">>, <<"op1", "resq", ".", "io">>,
     <<"op3", "@", "resq", ".", "io">>}

\* the code of the email that was delivered before the first request, and
\* what generateResetCode yields for a code generated since: each call draws
\* on its own among the six-digit codes, so that a call may draw once more a
\* code that was delivered or used before, or a code that no earlier call
\* has drawn; with as many other codes as requests arrive in one behaviour,
\* the draws of a behaviour can all differ from the delivered code and from
\* each other
DeliveredCode == <<"1", "2", "3", "4", "5", "6">>
GeneratedCodes ==
    {DeliveredCode}
        \cup {<<"6", "5", "4", "3", "2", ToString(k)>> : k \in 1..MaxResetCalls}

\* the errors of an attempt to send: initializeSendGrid without an API key,
\* and a connection that is refused
MissingApiKey ==
    MailError(<<"SendGrid API key is missing. Please check SENDGRID_API_KEY in .env file">>,
              "")
ConnectionRefused == MailError(<<"connect ", "ECONNREFUSED", " 127.0.0.1:443">>,
                               "ECONNREFUSED")

\* the ways the sending of an email goes: accepted at once, accepted at the
\* first retry, no API key, refused at every attempt
MailAttempts ==
    {<<MailSent>>, <<ConnectionRefused, MailSent>>, <<MissingApiKey>>,
     <<ConnectionRefused>>}

ResetBody(email, resetCode, newPassword) ==
    [email |-> email, resetCode |-> resetCode, newPassword |-> newPassword]

\* the reset attempts: each code that has been or can be issued, with a
\* password that is long enough, and a code too short
ResetBodies ==
    {ResetBody(<<"op1", "@", "resq", ".", "io">>, c, Password("Secret99", 8)) :
        c \in GeneratedCodes \cup {<<"1", "2", "3">>}}

RegisterBody(fullname, email, username, password, role) ==
    [fullname |-> fullname, email |-> email, username |-> username,
     password |-> password, role |-> role]

\* the registrations: a new account, and the email of the first account
\* under a new username
RegisterBodies ==
    {RegisterBody("Op Three", <<"Op3", "@", "resq", ".", "io">>, "op3",
                  Password("Secret33", 8), ""),
     RegisterBody("Op Nine", <<"Op1", "@", "resq", ".", "io">>, "op9",
                  Password("Secret33", 8), ADMIN_ROLE_ADMIN)}

ProfileBody(fullname, email) == [fullname |-> fullname, email |-> email]

\* the profiles the first account asks for: with the email of the second
\* account, and with an email no stored account has
ProfileBodies ==
    {ProfileBody("Op One", <<"op2", "@", "resq", ".", "io">>),
     ProfileBody(" Op Won ", <<"op3", "@", "resq", ".", "io">>)}

\* the changes of password the first account asks for, from the password it
\* was registered with: to one long enough, and to one too short
ChangeBodies ==
    {[oldPassword |-> RegisteredPassword, newPassword |-> Password("Changed77", 9)],
     [oldPassword |-> RegisteredPassword, newPassword |-> Password("short", 5)]}

\* the account whose operator calls the protected routes
ProfileAdmin == AdminAccounts[1].id

PasswordCalls == Len(alog) + Cardinality(areq)

\* whether one more request may arrive
PasswordArrival ==
    PasswordCalls < MaxResetCalls /\ Cardinality(areq) < MaxResetOverlap

AccountOps == {"register", "profile", "change", "delete"}

AccountCalls ==
    Cardinality({i \in 1..Len(alog) : alog[i].op \in AccountOps})
        + Cardinality({q \in areq : q.op \in AccountOps})

\* whether one more request other than forgot and reset may arrive
AccountArrival == PasswordArrival /\ AccountCalls < MaxAccountCalls

\* updateAdminProfile, changeAdminPassword and deleteAdminAccount behind
\* protectAdmin
ProtectedArrival ==
    \/ \E body \in ProfileBodies :
          ProtectAdmin("profile", ProfileAdmin, body.email, NoPassword,
                       AccountBody(body.fullname, "", NoPassword, ""))
    \/ \E body \in ChangeBodies :
          ProtectAdmin("change", ProfileAdmin, <<>>, body.newPassword,
                       AccountBody("", "", body.oldPassword, ""))
    \/ ProtectAdmin("delete", ProfileAdmin, <<>>, NoPassword, NoAccountBody)

NextReset ==
    \/ PasswordArrival /\ \E email \in ForgotEmails : ForgotAdminPassword(email)
    \/ PasswordArrival
         /\ \E body \in ResetBodies :
               ResetAdminPassword(body.email, body.resetCode, body.newPassword)
    \/ AccountArrival
         /\ \E body \in RegisterBodies :
               RegisterAdmin(body.fullname, body.email, body.username,
                             body.password, body.role)
    \/ AccountArrival /\ ProtectedArrival
    \/ \E q \in areq, resetCode \in GeneratedCodes : ForgotEdit(q, resetCode)
    \/ \E q \in areq : ForgotSave(q)
    \/ \E q \in areq, attempts \in MailAttempts : ForgotMail(q, attempts)
    \/ \E q \in areq, attempts \in MailAttempts : ForgotRollback(q, attempts)
    \/ \E q \in areq : ForgotRespond(q)
    \/ \E q \in areq : ResetRejected(q)
    \/ \E q \in areq : ResetSave(q)
    \/ \E q \in areq : ResetRespond(q)
    \/ \E q \in areq : RegisterRejected(q)
    \/ \E q \in areq : RegisterSave(q)
    \/ \E q \in areq : RegisterRespond(q)
    \/ \E q \in areq : AdminRefused(q)
    \/ \E q \in areq : ProfileFind(q)
    \/ \E q \in areq : ProfileRejected(q)
    \/ \E q \in areq : ProfileUpdate(q)
    \/ \E q \in areq : ProfileRespond(q)
    \/ \E q \in areq : AccountFind(q)
    \/ \E q \in areq : AccountRejected(q)
    \/ \E q \in areq : ChangeSave(q)
    \/ \E q \in areq : ChangeRespond(q)
    \/ \E q \in areq : DeleteExecute(q)
    \/ \E q \in areq : DeleteRespond(q)
    \/ now < RESET_CODE_EXPIRY_MS * MaxResetWaits /\ ResetCodeLifetime

\* the store after one forgotAdminPassword for the first account, raised at
\* time 1, whose email was delivered with the code 123456

InitReset ==
    /\ alerts = <<>>
    /\ req = {}
    /\ events = <<>>
    /\ log = <<>>
    /\ now = 2
    /\ convs = <<>>
    /\ msgs = <<>>
    /\ mreq = {}
    /\ mlog = <<>>
    /\ NoConnections
    /\ io = TRUE
    /\ admins = [AdminAccounts EXCEPT
                   ![1].resetPasswordToken = hashResetCode(DeliveredCode),
                   ![1].resetPasswordExpires = 1 + RESET_CODE_EXPIRY_MS]
    /\ areq = {}
    /\ alog = <<>>

SpecReset == InitReset /\ [][NextReset]_vars

----------------------------------------------------------------------------
(* Properties of the password reset *)

\* the requests that the step answers
PasswordAnswers == SubSeq(alog', Len(alog) + 1, Len(alog'))

\* the clocks at which forgotAdminPassword stored a reset token for the
\* account with this _id
TokensStored(id) ==
    {alog[i].saved : i \in {k \in 1..Len(alog) :
                               alog[k].op = "forgot" /\ alog[k].id = id}}
        \cup {q.saved : q \in {r \in areq : r.op = "forgot" /\ r.id = id}}

\* the resets for this email with this code that have saved: of each, the
\* _id of the account and the clock at its arrival
ResetsSaved(email, resetCode) ==
    LET saved(r) == /\ r.op = "reset" /\ r.saved # NoDate
                    /\ r.resetCode = resetCode
                    /\ NormalEmail(r.email) = NormalEmail(email)
    IN {<<alog[i].id, alog[i].n>> : i \in {k \in 1..Len(alog) : saved(alog[k])}}
          \cup {<<q.id, q.n>> : q \in {r \in areq : saved(r)}}

\* whether a reset for this email with this code has saved and every reset
\* token that a forgotAdminPassword has stored for that account was stored
\* before that reset looked the account up
CodeUsed(email, resetCode) ==
    \E r \in ResetsSaved(email, resetCode) :
        \A t \in TokensStored(r[1]) \ {NoDate} : t <= r[2]

\* whether a reset for this email with this code has been answered 200
ResetSucceeded(email, resetCode) ==
    \E i \in 1..Len(alog) :
        /\ alog[i].op = "reset" /\ alog[i].res.code = 200
        /\ alog[i].resetCode = resetCode
        /\ NormalEmail(alog[i].email) = NormalEmail(email)

\* the stored account with this _id after the step
AdminAfter(id) == admins'[CHOOSE i \in 1..Len(admins') : admins'[i].id = id]

\* whether the account with this _id is stored after the step
StoredAfter(id) == \E i \in 1..Len(admins') : admins'[i].id = id

\* the look-up of a reset attempt changes nothing and finds an account only
\* if that account holds the hash of the attempt's code with an expiry later
\* than the clock
ResetFindsByCode ==
    \A q \in areq' \ areq :
        (q.op = "reset" /\ q.pc = "found") =>
           /\ admins' = admins
           /\ q.id # NoId =>
                /\ AdminById(q.id).resetPasswordToken = hashResetCode(q.resetCode)
                /\ AdminById(q.id).resetPasswordExpires > now
                /\ AdminById(q.id).email = NormalEmail(q.email)

\* an attempt that arrives after a reset for the same email with the same
\* code was answered 200 finds no account
UsedCodeRejected ==
    \A q \in areq' \ areq :
        (q.op = "reset" /\ q.pc = "found"
            /\ ResetSucceeded(q.email, q.resetCode)) => q.id = NoId

\* an attempt that arrives after a reset for the same email with the same
\* code has saved, with no reset token stored for that account since that
\* reset looked it up, finds no account
UsedCodeRejectedUntilIssued ==
    \A q \in areq' \ areq :
        (q.op = "reset" /\ q.pc = "found"
            /\ CodeUsed(q.email, q.resetCode)) => q.id = NoId

\* an attempt that found no account is answered 400, and no answer changes
\* the Admin collection; the save of a reset leaves the account, if it is
\* still stored, with the new password and without a reset token, and only a
\* reset whose save wrote is answered 200; the second save of a
\* forgotAdminPassword whose email was not delivered leaves the account, if
\* it is still stored, without a reset token, and only after it is the
\* request answered 500 with the message of the email service
ResetAndRollbackEffects ==
    /\ \A q \in areq \ areq' :
         /\ (q.op = "reset" /\ q.pc = "found" /\ q.id = NoId) =>
               /\ Len(PasswordAnswers) = 1
               /\ PasswordAnswers[1].res.code = 400
               /\ PasswordAnswers[1].resetCode = q.resetCode
               /\ areq' = areq \ {q}
         /\ (q.op = "reset" /\ q.pc = "found" /\ q.id # NoId) =>
               IF StoredAfter(q.id)
               THEN /\ AdminAfter(q.id).resetPasswordToken = NoResetToken
                    /\ AdminAfter(q.id).resetPasswordExpires = NoResetExpires
                    /\ AdminAfter(q.id).password = hashPassword(q.newPassword, q.n)
                    /\ \E r \in areq' : r.n = q.n /\ r.pc = "saved"
               ELSE /\ admins' = admins
                    /\ \E r \in areq' : r.n = q.n /\ r.pc = "failed"
         /\ (q.op = "forgot" /\ q.pc = "mailing" /\ Len(PasswordAnswers) = 0) =>
               IF StoredAfter(q.id)
               THEN /\ AdminAfter(q.id).resetPasswordToken = NoResetToken
                    /\ AdminAfter(q.id).resetPasswordExpires = NoResetExpires
                    /\ \E r \in areq' : r.n = q.n /\ r.pc = "rolledback"
               ELSE /\ admins' = admins
                    /\ \E r \in areq' : r.n = q.n /\ r.pc = "failed"
    /\ \A k \in 1..Len(PasswordAnswers) :
         LET a == PasswordAnswers[k] IN
         /\ admins' = admins
         /\ (a.op = "reset" /\ a.res.code = 200) =>
               \E q \in areq \ areq' : q.pc = "saved" /\ q.n = a.n
         /\ (a.op = "forgot" /\ a.res.code = 500) =>
               \E q \in areq \ areq' :
                  /\ q.n = a.n
                  /\ \/ q.pc = "rolledback" /\ a.res.message = q.error
                     \/ q.pc = "failed"

====
